---- MODULE Spec2Model ----






(***************************************************************************)
(* A state-machine model of the multi-agent orchestration core:            *)
(*   memory/manager.py          WorkingMemory                              *)
(*   communication/protocol.py  EventBus, MessageRouter                    *)
(*   tools/handlers.py          ToolRegistry                               *)
(*   safety/guardrails.py       SafetyGuardrails                           *)
(*   agents/base.py             Agent                                      *)
(*   orchestration/agent_orchestrator.py  AgentOrchestrator                *)
(* Each component has its own specification over the shared variables, so  *)
(* that each can be explored with bounds that reach its interesting cases. *)
(***************************************************************************)
EXTENDS Integers, Sequences, FiniteSets, TLC

VARIABLES
    \* ---- WorkingMemory (memory/manager.py) ----
    wmCapacity,     \* WorkingMemory._capacity
    wmMemory,       \* WorkingMemory._memory: sequence of entries
    wmSeen,         \* history: every entry passed to add() since construction/clear()
    \* ---- EventBus / MessageRouter (communication/protocol.py) ----
    subscribers,    \* EventBus._subscribers: function from the events present to callback lists
    routes,         \* MessageRouter._routes: sequence of [agent_id, callback] (dict order)
    history,        \* MessageRouter._message_history: sequence of message ids
    nRouted,        \* history: number of route_message calls made so far
    lastOp,         \* history: name of the latest bus operation
    lastMsg,        \* history: the message of the latest route_message/publish call
    lastCalls,      \* history: callbacks invoked by the latest call, in order
    lastRaised,     \* history: whether the latest call raised to its caller
    \* ---- ToolRegistry / Agent / AgentOrchestrator ----
    tools,          \* ToolRegistry._tools: function from the registered names to their entries
    config,         \* AgentOrchestrator._config
    agents,         \* AgentOrchestrator._agents: sequence of agent records (dict order)
    nProcessed,     \* history: number of process_message calls made on agents directly
    opTrace,        \* history: the steps taken by the latest public operation, in order
    opResult,       \* history: what the latest public operation returned
    inFlight,       \* ToolRegistry.execute calls begun by concurrent callers, in order of their start
    \* ---- LongTermMemory / MemoryManager (memory/manager.py) ----
    ltmIndex,       \* LongTermMemory._memory_index: function from the ids present to index records
    ltmFiles,       \* the files of storage_path: function from the file stems present to their contents
    mmConfig,       \* MemoryManager constructor arguments (consolidation_threshold)
    consolTasks,    \* every task created by start_consolidation, in order: its state
    consolRef,      \* MemoryManager._consolidation_task: index into consolTasks, 0 for None
    mmLast          \* history: the latest memory operation, its entry and what it returned

wmVars  == <<wmCapacity, wmMemory, wmSeen>>
busVars == <<subscribers, routes, history, nRouted, lastOp, lastMsg, lastCalls, lastRaised>>
orchVars == <<tools, config, agents, nProcessed, opTrace, opResult>>
mmVars == <<ltmIndex, ltmFiles, mmConfig, consolTasks, consolRef, mmLast>>
vars == <<wmVars, busVars, orchVars, inFlight, mmVars>>

None == "None"

Max(a, b) == IF a >= b THEN a ELSE b
Min(a, b) == IF a <= b THEN a ELSE b

(***************************************************************************)
(* Python list slicing s[i:], with Python's meaning of a negative start.   *)
(* Note that -0 = 0, so s[-0:] is the whole list.                          *)
(***************************************************************************)
PySliceFrom(s, i) ==
    LET start == IF i < 0 THEN Max(Len(s) + i, 0) ELSE Min(i, Len(s))
    IN  SubSeq(s, start + 1, Len(s))

(***************************************************************************)
(*                          WorkingMemory                                  *)
(***************************************************************************)
MaxCapacity == 3       \* capacities 0..MaxCapacity are explored
MaxAdds == 5           \* add() calls between two clear() calls
MaxImportance == 2     \* importance levels 0..MaxImportance (a scale of [0,1])

Importances == 0 .. MaxImportance

\* A MemoryEntry, reduced to the fields WorkingMemory reads: id and importance.
\* Ids are handed out in order of addition, so a larger id is a later entry.
MemoryEntry(id, importance) == [id |-> id, importance |-> importance]

\* list.sort(key=importance) is a stable ascending sort: an entry is placed
\* after every entry whose key is <= its own.
RECURSIVE SortedInsertFlipped(_, _)
SortedInsertFlipped(sorted, e) ==
    IF sorted = <<>> THEN <<e>>
    ELSE IF Head(sorted).importance < e.importance
         THEN <<Head(sorted)>> \o SortedInsertFlipped(Tail(sorted), e)
         ELSE <<e>> \o sorted

RECURSIVE SortedInsert(_, _)
SortedInsert(sorted, e) ==
    IF sorted = <<>> THEN <<e>>
    ELSE IF Head(sorted).importance <= e.importance
         THEN <<Head(sorted)>> \o SortedInsert(Tail(sorted), e)
         ELSE <<e>> \o sorted

RECURSIVE SortByImportance(_)
SortByImportance(s) ==
    IF s = <<>> THEN <<>>
    ELSE SortedInsert(SortByImportance(SubSeq(s, 1, Len(s) - 1)), s[Len(s)])

\* WorkingMemory.add, as a function of the list and the capacity.
WorkingMemoryAdd(memory, capacity, entry) ==
    LET appended == Append(memory, entry)
    IN  IF Len(appended) > capacity
        THEN PySliceFrom(SortByImportance(appended), -capacity)
        ELSE appended

WMAdd ==
    /\ Len(wmSeen) < MaxAdds
    /\ \E imp \in Importances :
         LET entry == MemoryEntry(Len(wmSeen) + 1, imp)
         IN  /\ wmMemory' = WorkingMemoryAdd(wmMemory, wmCapacity, entry)
             /\ wmSeen' = Append(wmSeen, entry)
    /\ UNCHANGED <<wmCapacity, busVars, orchVars, mmVars, inFlight>>

WMClear ==
    /\ wmSeen # <<>>
    /\ wmMemory' = <<>>
    /\ wmSeen' = <<>>
    /\ UNCHANGED <<wmCapacity, busVars, orchVars, mmVars, inFlight>>

(***************************************************************************)
(*                     EventBus and MessageRouter                          *)
(***************************************************************************)
HistoryLimit == 1000   \* MessageRouter._history_limit

MaxSubscriptions == 2  \* total length of all subscriber lists
MaxRouted == 2         \* route_message calls explored when the history is not at issue
HistoryOverrun == 3    \* route_message calls explored beyond HistoryLimit
MaxMessages == 1       \* process_message and process_user_message calls that reach an agent or the router

MessageTypes == {"direct", "broadcast", "system", "event", "tool_request", "tool_response"}
AgentIds == {"a1", "a2"}
EventNames == {"e1", "system"}

\* Callables given to subscribe/register_route.  `async` is what
\* asyncio.iscoroutinefunction answers; `raises` is whether the body raises an
\* Exception when it runs; `coroutine` marks a plain function that only builds
\* and returns a coroutine object (such as a lambda around an async method).
Callback(name, async, raises, coroutine) ==
    [name |-> name, async |-> async, raises |-> raises, coroutine |-> coroutine]
CbSync       == Callback("f", FALSE, FALSE, FALSE)
CbAsync      == Callback("g", TRUE, FALSE, FALSE)
CbSyncRaise  == Callback("boom", FALSE, TRUE, FALSE)
Callbacks == {CbSync, CbAsync, CbSyncRaise}

\* Python truthiness of an optional string: None and "" are falsy.
Truthy(x) == x # None /\ x # ""

Message(id, type, recipient_id, event_type, content) ==
    [id |-> id, type |-> type, recipient_id |-> recipient_id,
     event_type |-> event_type, content |-> content]

\* `if iscoroutinefunction(cb): await cb(msg) else: cb(msg)`.  An async callback is
\* awaited and a sync one called, so either body runs; a plain function returning a
\* coroutine is called and its coroutine object dropped, so the body never runs.
InvokeCallback(cb) ==
    [bodyRan |-> cb.async \/ ~cb.coroutine,
     raised  |-> (cb.async \/ ~cb.coroutine) /\ cb.raises]

Call(kind, key, cb, msg) == [kind |-> kind, key |-> key, cb |-> cb.name, msg |-> msg.id]

\* A `for` loop over callables, each in its own try/except when `guarded`.
\* items: sequence of [kind, key, cb].  Returns the calls made and whether an
\* exception left the loop.
RECURSIVE RunCallbacks(_, _, _)
RunCallbacks(items, msg, guarded) ==
    IF items = <<>> THEN [calls |-> <<>>, exc |-> FALSE]
    ELSE LET it   == Head(items)
             r    == InvokeCallback(it.cb)
             call == Call(it.kind, it.key, it.cb, msg)
         IN  IF r.raised /\ ~guarded
             THEN [calls |-> <<call>>, exc |-> TRUE]
             ELSE LET rest == RunCallbacks(Tail(items), msg, guarded)
                  IN  [calls |-> <<call>> \o rest.calls, exc |-> rest.exc]

NoCalls == [calls |-> <<>>, exc |-> FALSE]

\* EventBus.publish
PublishUnguarded(subs, event, msg) ==
    IF event \in DOMAIN subs
    THEN RunCallbacks([i \in 1 .. Len(subs[event]) |->
                          [kind |-> "event", key |-> event, cb |-> subs[event][i]]],
                      msg, FALSE)
    ELSE NoCalls

Publish(subs, event, msg) ==
    IF event \in DOMAIN subs
    THEN RunCallbacks([i \in 1 .. Len(subs[event]) |->
                          [kind |-> "event", key |-> event, cb |-> subs[event][i]]],
                      msg, TRUE)
    ELSE NoCalls

\* dict operations on the route table (a dict keeps insertion order)
RouteKeys(rts) == {rts[i].agent_id : i \in 1 .. Len(rts)}
RouteIndex(rts, id) == CHOOSE i \in 1 .. Len(rts) : rts[i].agent_id = id
RouteItems(rts) ==
    [i \in 1 .. Len(rts) |-> [kind |-> "route", key |-> rts[i].agent_id, cb |-> rts[i].cb]]

RemoveAt(s, i) == SubSeq(s, 1, i - 1) \o SubSeq(s, i + 1, Len(s))

\* MessageRouter._handle_broadcast
HandleBroadcastUnguarded(rts, msg) == RunCallbacks(RouteItems(rts), msg, FALSE)

HandleBroadcast(rts, msg) == RunCallbacks(RouteItems(rts), msg, TRUE)

\* MessageRouter._handle_direct
HandleDirectToFirst(rts, msg) ==
    IF rts = <<>> THEN NoCalls
    ELSE RunCallbacks(<<RouteItems(rts)[1]>>, msg, TRUE)

HandleDirect(rts, msg) ==
    IF ~Truthy(msg.recipient_id) THEN NoCalls
    ELSE IF msg.recipient_id \notin RouteKeys(rts) THEN NoCalls
    ELSE RunCallbacks(<<RouteItems(rts)[RouteIndex(rts, msg.recipient_id)]>>, msg, TRUE)

\* MessageRouter._handle_event
HandleEvent(subs, msg) ==
    IF ~Truthy(msg.event_type) THEN NoCalls
    ELSE Publish(subs, msg.event_type, msg)

\* MessageRouter._handle_system
HandleSystemBroadcastOnly(rts, subs, msg) == HandleBroadcast(rts, msg)

HandleSystem(rts, subs, msg) ==
    LET b == HandleBroadcast(rts, msg)
    IN  IF b.exc THEN b
        ELSE LET p == Publish(subs, "system", msg)
             IN  [calls |-> b.calls \o p.calls, exc |-> p.exc]

\* MessageRouter._add_to_history
AddToHistoryDropNewest(hist, id) ==
    LET h == Append(hist, id)
    IN  IF Len(h) > HistoryLimit THEN SubSeq(h, 1, Len(h) - 1) ELSE h

AddToHistory(hist, id) ==
    LET h == Append(hist, id)
    IN  IF Len(h) > HistoryLimit THEN Tail(h) ELSE h

\* The dispatch on message.type inside route_message's try block.
Dispatch(rts, subs, msg) ==
    CASE msg.type = "broadcast" -> HandleBroadcast(rts, msg)
      [] msg.type = "direct"    -> HandleDirect(rts, msg)
      [] msg.type = "event"     -> HandleEvent(subs, msg)
      [] msg.type = "system"    -> HandleSystem(rts, subs, msg)
      [] OTHER                  -> NoCalls

\* MessageRouter.route_message: the calls made, and whether it raised to its
\* caller (never: `except Exception` encloses the whole body).
RouteMessage(rts, subs, msg) ==
    LET d == Dispatch(rts, subs, msg)
    IN  [calls |-> d.calls, raised |-> FALSE]

\* ---- the bus as a state machine ----
EmptyDict == [e \in {} |-> <<>>]

DictSet(d, k, v) == [x \in DOMAIN d \cup {k} |-> IF x = k THEN v ELSE d[x]]

TotalSubscriptions(subs) ==
    LET RECURSIVE Sum(_)
        Sum(ks) == IF ks = {} THEN 0
                   ELSE LET k == CHOOSE x \in ks : TRUE
                        IN  Len(subs[k]) + Sum(ks \ {k})
    IN  Sum(DOMAIN subs)

\* list.index as used by list.remove: the first position holding x, 0 if none
FirstIndex(s, x) ==
    IF \E i \in 1 .. Len(s) : s[i] = x
    THEN CHOOSE i \in 1 .. Len(s) : s[i] = x /\ \A j \in 1 .. i - 1 : s[j] # x
    ELSE 0

\* The messages given to route_message: every type; for DIRECT every kind of
\* recipient_id, for EVENT every kind of metadata.event_type.
BusMessages(id) ==
    {Message(id, "direct", r, None, None) : r \in AgentIds \cup {None, "", "zz"}}
    \cup {Message(id, "event", None, e, None) : e \in EventNames \cup {None, "", "e2"}}
    \cup {Message(id, t, None, None, None) : t \in MessageTypes \ {"direct", "event"}}

BusQuiet(op, raised) ==
    /\ lastOp' = op
    /\ lastMsg' = None
    /\ lastCalls' = <<>>
    /\ lastRaised' = raised

\* EventBus.subscribe
Subscribe ==
    /\ TotalSubscriptions(subscribers) < MaxSubscriptions
    /\ \E ev \in EventNames, cb \in Callbacks :
         subscribers' = DictSet(subscribers, ev,
                                IF ev \in DOMAIN subscribers
                                THEN Append(subscribers[ev], cb) ELSE <<cb>>)
    /\ BusQuiet("subscribe", FALSE)
    /\ UNCHANGED <<routes, history, nRouted>>
    /\ UNCHANGED <<wmVars, mmVars, inFlight, orchVars>>

\* EventBus.unsubscribe: list.remove raises ValueError when the callback is absent
Unsubscribe ==
    /\ \E ev \in EventNames, cb \in Callbacks :
         IF ev \notin DOMAIN subscribers
         THEN /\ UNCHANGED subscribers
              /\ BusQuiet("unsubscribe", FALSE)
         ELSE LET i == FirstIndex(subscribers[ev], cb)
              IN  IF i = 0
                  THEN /\ UNCHANGED subscribers
                       /\ BusQuiet("unsubscribe", TRUE)
                  ELSE /\ subscribers' = DictSet(subscribers, ev, RemoveAt(subscribers[ev], i))
                       /\ BusQuiet("unsubscribe", FALSE)
    /\ UNCHANGED <<routes, history, nRouted>>
    /\ UNCHANGED <<wmVars, mmVars, inFlight, orchVars>>

\* MessageRouter.register_route
RegisterRoute ==
    /\ \E id \in AgentIds, cb \in Callbacks :
         routes' = IF id \in RouteKeys(routes)
                   THEN [routes EXCEPT ![RouteIndex(routes, id)].cb = cb]
                   ELSE Append(routes, [agent_id |-> id, cb |-> cb])
    /\ BusQuiet("register_route", FALSE)
    /\ UNCHANGED <<subscribers, history, nRouted>>
    /\ UNCHANGED <<wmVars, mmVars, inFlight, orchVars>>

\* MessageRouter.unregister_route
UnregisterRoute ==
    /\ \E id \in AgentIds :
         routes' = IF id \in RouteKeys(routes)
                   THEN RemoveAt(routes, RouteIndex(routes, id))
                   ELSE routes
    /\ BusQuiet("unregister_route", FALSE)
    /\ UNCHANGED <<subscribers, history, nRouted>>
    /\ UNCHANGED <<wmVars, mmVars, inFlight, orchVars>>

\* MessageRouter.route_message on a freshly constructed message; the message's
\* id is its rank among the routed messages.
RouteStep(limit) ==
    /\ nRouted < limit
    /\ \E msg \in BusMessages(nRouted + 1) :
         LET r == RouteMessage(routes, subscribers, msg)
         IN  /\ history' = AddToHistory(history, msg.id)
             /\ lastMsg' = msg
             /\ lastCalls' = r.calls
             /\ lastRaised' = r.raised
    /\ nRouted' = nRouted + 1
    /\ lastOp' = "route_message"
    /\ UNCHANGED <<subscribers, routes>>

RouteMessageStep == RouteStep(MaxRouted) /\ UNCHANGED <<wmVars, mmVars, inFlight, orchVars>>

\* EventBus.publish called directly
PublishStep ==
    /\ \E ev \in EventNames \cup {"e2"} :
         LET msg == Message(0, "event", None, ev, None)
             r   == Publish(subscribers, ev, msg)
         IN  /\ lastMsg' = msg
             /\ lastCalls' = r.calls
             /\ lastRaised' = r.exc
    /\ lastOp' = "publish"
    /\ UNCHANGED <<subscribers, routes, history, nRouted>>
    /\ UNCHANGED <<wmVars, mmVars, inFlight, orchVars>>

(***************************************************************************)
(*                          SafetyGuardrails                               *)
(***************************************************************************)
\* Texts are named; what the code reads of a text is which routing keywords it
\* contains as substrings and whether a harmful-content or PII pattern matches.
\*   "fib"     Write a function to calculate fibonacci
\*   "weather" The weather is nice today.
\*   "plan"    Plan the task: coordinate and manage it
\*   "ssn"     My SSN is 123-45-6789
Texts == {"fib", "weather", "plan", "ssn"}

TextMatchesUnsafePattern(t) == t = "ssn"

\* SafetyGuardrails.check_content_safety: safe iff no pattern matched
CheckContentSafetyPermissive(t) == TRUE

CheckContentSafety(t) == ~TextMatchesUnsafePattern(t)

DeniedTools == {"system_command", "file_write"}

\* `any(dangerous in arg.lower() for dangerous in ["/etc/", "/usr/", "/var/", "~/"])`
\* on the strings the model passes as parameter names and values
HasDangerousPath(str) == str \in {"/etc/passwd", "~/notes"}

\* SafetyGuardrails.check_tool_safety.  `for arg in args` runs over the keys of
\* the args dict, that is over the parameter names.
CheckToolSafety(name, args) ==
    IF name \in DeniedTools THEN FALSE
    ELSE ~ \E k \in DOMAIN args : HasDangerousPath(k)

(***************************************************************************)
(*                            ToolRegistry                                 *)
(***************************************************************************)
DefaultTimeout == 30    \* ToolRegistry._default_timeout, in seconds

\* A function given to register: whether it is `async def` (kind), whether it
\* returns or raises (handler; "returns_late" is a coroutine that catches the
\* CancelledError of a cancellation and goes on to return), how long it runs in
\* seconds (duration), and the parameters of its signature that have no
\* default (required).
Function(kind, handler, duration, required) ==
    [kind |-> kind, handler |-> handler, duration |-> duration, required |-> required]

\* The tools the orchestrator's agents ask for, by name.
ToolCatalog ==
    [n \in {"search", "code_analysis", "system_command"} |->
        CASE n = "search"         -> Function("async", "returns", 1, {"query"})
          [] n = "code_analysis"  -> Function("sync", "raises", 1, {})
          [] n = "system_command" -> Function("sync", "returns", 1, {})]

\* Functions registered when the registry is explored on its own: those of the
\* catalog, and functions that run for 3 and for 31 seconds.
HandlerPool ==
    {ToolCatalog[n] : n \in DOMAIN ToolCatalog}
    \cup {Function("async", "returns", 3, {}), Function("sync", "returns", 3, {}),
          Function("async", "returns", 31, {}), Function("async", "returns_late", 3, {})}

\* register's timeout argument: 0 stands for None and for 0, which
\* `timeout or self._default_timeout` both replace by the default
TimeoutArgs == {0, 2}

RegistryNames == {"t1", "t2"}

\* Tool names asked for; "ghost" is never registered.
ToolNames == DOMAIN ToolCatalog \cup {"ghost"}

ParamNames == {"query", "~/notes"}
ArgValues == {"data", "/etc/passwd"}
ArgDicts == UNION {[ks -> ArgValues] : ks \in SUBSET ParamNames}

\* A step of an operation, as recorded in opTrace.
Event(ev, who, tool, args, ok) ==
    [ev |-> ev, who |-> who, tool |-> tool, args |-> args, ok |-> ok]

\* The entry register stores under a name.
ToolEntry(func, timeout) ==
    [func |-> func, timeout |-> IF timeout = 0 THEN DefaultTimeout ELSE timeout]

\* ToolRegistry.register: raises ValueError for a name already registered
RegistryRegisterOverwrite(tls, name, func, timeout) ==
    [raised |-> name \in DOMAIN tls,
     tools |-> [x \in DOMAIN tls \cup {name} |->
                   IF x = name THEN ToolEntry(func, timeout) ELSE tls[x]]]

RegistryRegister(tls, name, func, timeout) ==
    IF name \in DOMAIN tls
    THEN [raised |-> TRUE, tools |-> tls]
    ELSE [raised |-> FALSE,
          tools |-> [x \in DOMAIN tls \cup {name} |->
                        IF x = name THEN ToolEntry(func, timeout) ELSE tls[x]]]

\* The part of ToolRegistry.execute that calls the function.  An async function
\* becomes a task awaited with asyncio.wait_for, which at the deadline cancels
\* the task, waits until it is cancelled and raises TimeoutError.  A sync
\* function is awaited through run_in_executor, without a deadline.  The
\* "handler" event says that the function was called, with ok = it returned a
\* value; "execute_returned" carries the seconds elapsed when execute returns.
\* wait_for hands on the value of a task that finished in spite of the
\* cancellation, so a "returns_late" coroutine is waited for to its end.
RunHandlerUncancelled(tool, who, name, kwargs) ==
    LET f == tool.func
        called(ok) == Event("handler", who, name, kwargs, ok)
        returned(t, ok) == Event("execute_returned", who, name, t, ok)
        task == IF f.kind = "async"
                THEN <<Event("task_created", who, name, kwargs, TRUE)>> ELSE <<>>
    IN  IF f.kind = "async" /\ f.duration > tool.timeout
        THEN [raised |-> FALSE, success |-> FALSE, error |-> "timeout",
              trace |-> task \o <<returned(tool.timeout, FALSE), called(TRUE)>>]
        ELSE IF f.handler \in {"returns", "returns_late"}
        THEN [raised |-> FALSE, success |-> TRUE, error |-> None,
              trace |-> task \o <<called(TRUE), returned(f.duration, TRUE)>>]
        ELSE [raised |-> FALSE, success |-> FALSE, error |-> "handler_error",
              trace |-> task \o <<called(FALSE), returned(f.duration, FALSE)>>]

RunHandler(tool, who, name, kwargs) ==
    LET f == tool.func
        called(ok) == Event("handler", who, name, kwargs, ok)
        returned(t, ok) == Event("execute_returned", who, name, t, ok)
        task == IF f.kind = "async"
                THEN <<Event("task_created", who, name, kwargs, TRUE)>> ELSE <<>>
    IN  IF f.kind = "async" /\ f.duration > tool.timeout /\ f.handler # "returns_late"
        THEN [raised |-> FALSE, success |-> FALSE, error |-> "timeout",
              trace |-> task \o <<called(FALSE),
                                  Event("task_cancelled", who, name, kwargs, TRUE),
                                  returned(tool.timeout, FALSE)>>]
        ELSE IF f.handler \in {"returns", "returns_late"}
        THEN [raised |-> FALSE, success |-> TRUE, error |-> None,
              trace |-> task \o <<called(TRUE), returned(f.duration, TRUE)>>]
        ELSE [raised |-> FALSE, success |-> FALSE, error |-> "handler_error",
              trace |-> task \o <<called(FALSE), returned(f.duration, FALSE)>>]

\* ToolRegistry.execute: raises ValueError for an unknown tool or a missing
\* required parameter; otherwise runs the handler and wraps its outcome.
RegistryExecuteUnvalidated(tls, who, name, kwargs) ==
    IF name \notin DOMAIN tls
    THEN [raised |-> TRUE, trace |-> <<>>, success |-> FALSE, error |-> "not_found"]
    ELSE RunHandler(tls[name], who, name, kwargs)

RegistryExecute(tls, who, name, kwargs) ==
    IF name \notin DOMAIN tls
    THEN [raised |-> TRUE, trace |-> <<>>, success |-> FALSE, error |-> "not_found"]
    ELSE IF ~(tls[name].func.required \subseteq DOMAIN kwargs)
    THEN [raised |-> TRUE, trace |-> <<>>, success |-> FALSE, error |-> "missing_parameter"]
    ELSE RunHandler(tls[name], who, name, kwargs)

\* ToolRegistry.validate_tool_request
ValidateToolRequest(tls, name, args) ==
    /\ name \in DOMAIN tls
    /\ tls[name].func.required \subseteq DOMAIN args

(***************************************************************************)
(*                               Agent                                     *)
(***************************************************************************)
AgentMemorySize == 1000    \* Agent.__init__(memory_size=1000)

MaxAgentMessages == 2      \* process_message calls explored on an agent on its own
MaxViewLimit == 2          \* get_memory limits 1..MaxViewLimit (0: no limit given)

AgentTypes == {"base", "code", "research", "task"}

DefaultCapabilities(type) ==
    CASE type = "code"     -> {"code_analysis", "code_generation", "testing"}
      [] type = "research" -> {"search", "summarize", "fact_check"}
      [] type = "task"     -> {"task_planning", "agent_coordination", "progress_tracking"}
      [] type = "base"     -> {}

\* Agent.__init__, directly (type "base") or through CodeAgent/ResearchAgent/
\* TaskAgent.__init__; no capabilities given (None, written {} here) or an
\* empty list mean the defaults
NewAgent(id, type, capabilities) ==
    [id |-> id, type |-> type,
     capabilities |-> IF capabilities = {}
                      THEN DefaultCapabilities(type) ELSE capabilities,
     status |-> "initialized", memory |-> <<>>]

\* Agent.use_tool
AgentUseToolUnchecked(agent, tls, name, kwargs) ==
    LET check == Event("tool_safety", agent.id, name, kwargs, CheckToolSafety(name, kwargs))
        x == RegistryExecute(tls, agent.id, name, kwargs)
    IN  IF ~check.ok
        THEN [raised |-> FALSE, trace |-> <<check>>, success |-> FALSE, error |-> "safety"]
        ELSE [raised |-> x.raised, trace |-> <<check>> \o x.trace,
              success |-> x.success, error |-> x.error]

AgentUseTool(agent, tls, name, kwargs) ==
    IF name \notin agent.capabilities
    THEN [raised |-> FALSE, trace |-> <<>>, success |-> FALSE, error |-> "capability"]
    ELSE LET check == Event("tool_safety", agent.id, name, kwargs,
                            CheckToolSafety(name, kwargs))
             x == RegistryExecute(tls, agent.id, name, kwargs)
         IN  IF ~check.ok
             THEN [raised |-> FALSE, trace |-> <<check>>, success |-> FALSE, error |-> "safety"]
             ELSE [raised |-> x.raised, trace |-> <<check>> \o x.trace,
                   success |-> x.success, error |-> x.error]

\* Agent._add_to_memory
AddToMemory(memory, entry) ==
    LET m == Append(memory, entry)
    IN  IF Len(m) > AgentMemorySize THEN Tail(m) ELSE m

\* An assignment to self.status, as recorded in opTrace.
StatusSet(agent, status) == Event("status", agent.id, None, status, TRUE)

\* _generate_response.  The base class raises NotImplementedError.  Each of the
\* three agent types starts with one use_tool call and then reads a key
\* ("explanation", "results", "task_id") that the dict returned by use_tool
\* never has; the KeyError, like a ValueError raised by the registry, is caught
\* by the method's own try/except, which returns {"error", "details"}.  So the
\* specialised methods never raise and always answer with that dict.  The
\* "generate_response" event has ok = FALSE when an exception was raised
\* inside the method.
GenerateResponse(agent, tls, text) ==
    IF agent.type = "base"
    THEN [raised |-> TRUE, response |-> None,
          trace |-> <<Event("generate_response", agent.id, None, text, FALSE)>>]
    ELSE
    LET first == CASE agent.type = "code"     -> [tool |-> "code_analysis", keys |-> {"content"}]
                   [] agent.type = "research" -> [tool |-> "search", keys |-> {"query", "limit"}]
                   [] agent.type = "task"     -> [tool |-> "task_planning", keys |-> {"content"}]
        u == AgentUseTool(agent, tls, first.tool,
                          [k \in first.keys |-> IF k = "limit" THEN "10" ELSE text])
    IN  [raised |-> FALSE, response |-> "error_dict",
         trace |-> u.trace \o <<Event("generate_response", agent.id, None, text, FALSE)>>]

\* Agent.process_message on {"content": text}
AgentProcessMessageRejectAsFault(agent, tls, text) ==
    LET check == Event("content_safety", agent.id, None, text, CheckContentSafety(text))
        body  == Event("process_message", agent.id, None, text, TRUE)
        begun == <<body, StatusSet(agent, "processing"), check>>
    IN  IF ~check.ok
        THEN [agent |-> [agent EXCEPT !.status = "error"],
              trace |-> begun \o <<StatusSet(agent, "error")>>,
              success |-> FALSE, error |-> "Safety check failed"]
        ELSE LET m1 == AddToMemory(agent.memory, [type |-> "received", content |-> text])
                 g  == GenerateResponse(agent, tls, text)
             IN  IF g.raised
                 THEN [agent |-> [agent EXCEPT !.status = "error", !.memory = m1],
                       trace |-> begun \o g.trace \o <<StatusSet(agent, "error")>>,
                       success |-> FALSE, error |-> "exception"]
                 ELSE [agent |-> [agent EXCEPT !.status = "idle",
                                     !.memory = AddToMemory(m1, [type |-> "sent",
                                                                 content |-> g.response])],
                       trace |-> begun \o g.trace \o <<StatusSet(agent, "idle")>>,
                       success |-> FALSE, error |-> "Failed to generate response"]

\* The value returned is the response itself when generation returns: for the
\* three agent types the dict {"error", "details"}, which has no "success" key
\* (written success = FALSE, what result.get("success") reads as).
AgentProcessMessage(agent, tls, text) ==
    LET check == Event("content_safety", agent.id, None, text, CheckContentSafety(text))
        body  == Event("process_message", agent.id, None, text, TRUE)
        begun == <<body, StatusSet(agent, "processing"), check>>
    IN  IF ~check.ok
        THEN [agent |-> [agent EXCEPT !.status = "processing"],
              trace |-> begun, success |-> FALSE, error |-> "Safety check failed"]
        ELSE LET m1 == AddToMemory(agent.memory, [type |-> "received", content |-> text])
                 g  == GenerateResponse(agent, tls, text)
             IN  IF g.raised
                 THEN [agent |-> [agent EXCEPT !.status = "error", !.memory = m1],
                       trace |-> begun \o g.trace \o <<StatusSet(agent, "error")>>,
                       success |-> FALSE, error |-> "exception"]
                 ELSE [agent |-> [agent EXCEPT !.status = "idle",
                                     !.memory = AddToMemory(m1, [type |-> "sent",
                                                                 content |-> g.response])],
                       trace |-> begun \o g.trace \o <<StatusSet(agent, "idle")>>,
                       success |-> FALSE, error |-> "Failed to generate response"]

\* Agent.get_memory(limit): the list object handed to the caller.  Without a
\* limit (None, or 0: both falsy, written 0) it is self._memory itself; with
\* one it is the new list built by the slice self._memory[-limit:].
GetMemory(agent, limit) ==
    IF limit = 0
    THEN [alias |-> TRUE, items |-> agent.memory]
    ELSE [alias |-> FALSE, items |-> PySliceFrom(agent.memory, -limit)]

(***************************************************************************)
(*                         AgentOrchestrator                               *)
(***************************************************************************)
OpResult(op, who, tool, args, success, error) ==
    [op |-> op, who |-> who, tool |-> tool, args |-> args,
     success |-> success, error |-> error]

NoResult == OpResult("init", None, None, None, FALSE, None)

AgentConfig(id, type, capabilities) == [id |-> id, type |-> type, capabilities |-> capabilities]

\* The configurations explored: which agents exist (one per type at most, in one
\* list a task agent with capabilities of its own), which tools are high-risk,
\* and resource limits that the sampled usage meets or exceeds.
LimitsMet == [r \in {"memory", "cpu"} |-> 80]
LimitsExceeded == [r \in {"memory"} |-> 40]

AllAgents ==
    <<AgentConfig("coder", "code", {}), AgentConfig("researcher", "research", {}),
      AgentConfig("planner", "task", {})>>
CustomPlanner ==
    <<AgentConfig("coder", "code", {}),
      AgentConfig("planner", "task", {"system_command", "search", "ghost"})>>
ResearcherOnly == <<AgentConfig("researcher", "research", {})>>

Config(agentList, highRisk, limits) ==
    [agents |-> agentList, high_risk_tools |-> highRisk, resource_limits |-> limits]

Configs ==
    { Config(AllAgents, {"system_command"}, LimitsMet),
      Config(AllAgents, {}, LimitsExceeded),
      Config(CustomPlanner, {"system_command"}, LimitsMet),
      Config(CustomPlanner, {}, LimitsMet),
      Config(ResearcherOnly, {}, LimitsMet) }

\* AgentOrchestrator._get_resource_usage
ResourceUsage == [r \in {"memory", "cpu", "network"} |->
                    CASE r = "memory" -> 50 [] r = "cpu" -> 30 [] r = "network" -> 20]

\* AgentOrchestrator._check_resource_limits
CheckResourceLimitsFlipped(cfg) ==
    \E r \in DOMAIN cfg.resource_limits : ResourceUsage[r] < cfg.resource_limits[r]

CheckResourceLimits(cfg) ==
    \E r \in DOMAIN cfg.resource_limits : ResourceUsage[r] > cfg.resource_limits[r]

\* The route registered for an agent by _initialize_agents:
\*   lambda msg, agent=agent: agent.process_message(msg.content)
\* a plain function (iscoroutinefunction is False) that returns the coroutine
\* of the async method process_message.
AgentRouteCallback(id) == Callback(id, FALSE, FALSE, TRUE)

\* AgentOrchestrator._setup_event_handlers: three async handlers
OrchestratorSubscribers ==
    [e \in {"task_update", "resource_alert", "agent_error"} |->
        <<Callback("_handle_" \o e, TRUE, FALSE, FALSE)>>]

AgentIndex(agts, id) == CHOOSE i \in 1 .. Len(agts) : agts[i].id = id
AgentsOfType(agts, type) == {i \in 1 .. Len(agts) : agts[i].type = type}

\* the keyword table of _route_message, in dict order
RoutingTypes == <<"code", "research", "task">>
RoutingKeywords(type) ==
    CASE type = "code"     -> {"code", "function", "bug", "error", "programming"}
      [] type = "research" -> {"research", "information", "find", "search"}
      [] type = "task"     -> {"task", "plan", "coordinate", "manage"}

\* the routing keywords a text contains (word.lower() in message.lower())
TextKeywords(t) ==
    CASE t = "fib"  -> {"function"}
      [] t = "plan" -> {"plan", "task", "coordinate", "manage"}
      [] OTHER      -> {}

ScoreNum(type, t) == Cardinality(RoutingKeywords(type) \cap TextKeywords(t))
ScoreDen(type) == Cardinality(RoutingKeywords(type))

\* max(scores.items(), key=score): the first type, in dict order, that no type beats
BestType(t) ==
    LET Beats(a, b) == ScoreNum(a, t) * ScoreDen(b) > ScoreNum(b, t) * ScoreDen(a)
        best == CHOOSE i \in 1 .. 3 :
                   /\ \A j \in 1 .. 3 : ~Beats(RoutingTypes[j], RoutingTypes[i])
                   /\ \A j \in 1 .. i - 1 :
                        \E k \in 1 .. 3 : Beats(RoutingTypes[k], RoutingTypes[j])
    IN  RoutingTypes[best]

\* AgentOrchestrator._route_message; confidence as the fraction num/den.
\* Without an agent of the best type it falls back on the task agent, and
\* raises AttributeError when there is none (self._task_agent is None).
RouteDecision(agts, t) ==
    LET best == BestType(t)
        ofBest == AgentsOfType(agts, best)
        tasks == AgentsOfType(agts, "task")
    IN  IF ofBest # {}
        THEN [raised |-> FALSE,
              agent_id |-> agts[CHOOSE i \in ofBest : \A j \in ofBest : i <= j].id,
              num |-> ScoreNum(best, t), den |-> ScoreDen(best)]
        ELSE IF tasks # {}
        THEN [raised |-> FALSE,
              agent_id |-> agts[CHOOSE i \in tasks : \A j \in tasks : i >= j].id,
              num |-> 1, den |-> 2]
        ELSE [raised |-> TRUE, agent_id |-> None, num |-> 0, den |-> 1]

\* `routing["confidence"] < 0.7`
LowConfidenceBelowFifth(d) == 5 * d.num < d.den

LowConfidence(d) == 10 * d.num < 7 * d.den

\* What the route callbacks invoked by the router do to the agents: a callback
\* whose body runs executes process_message of its agent on the text.
RECURSIVE RunAgentBodies(_, _, _, _, _)
RunAgentBodies(agts, tls, rts, calls, text) ==
    IF calls = <<>> THEN [agents |-> agts, trace |-> <<>>]
    ELSE LET c == Head(calls)
             ran == /\ c.kind = "route"
                    /\ c.key \in {agts[i].id : i \in 1 .. Len(agts)}
                    /\ InvokeCallback(rts[RouteIndex(rts, c.key)].cb).bodyRan
         IN  IF ran
             THEN LET i == AgentIndex(agts, c.key)
                      pm == AgentProcessMessage(agts[i], tls, text)
                      rest == RunAgentBodies([agts EXCEPT ![i] = pm.agent], tls, rts,
                                             Tail(calls), text)
                  IN  [agents |-> rest.agents, trace |-> pm.trace \o rest.trace]
             ELSE RunAgentBodies(agts, tls, rts, Tail(calls), text)

\* What _request_intervention answers.  The method as written approves every
\* request; it is the place where a human intervention service is plugged in,
\* and the callers handle an answer that does not approve.
HookOutcomes == {TRUE, FALSE}

\* AgentOrchestrator.handle_tool_request with execute_tool_safely; `approved`
\* is the answer of the intervention hook, asked for a high-risk tool only.
\* execute_tool_safely wraps whatever execute returns as a success.
OrchestratorHandleToolRequestUnheeded(cfg, tls, name, params, approved) ==
    LET who == "orchestrator"
        valid == Event("validate", who, name, params, ValidateToolRequest(tls, name, params))
        hook == IF name \in cfg.high_risk_tools
                THEN <<Event("intervention", who, name, params, approved)>> ELSE <<>>
        x == RegistryExecute(tls, who, name, params)
    IN  IF ~valid.ok
        THEN [trace |-> <<valid>>, success |-> FALSE, error |-> "validation"]
        ELSE IF x.raised
        THEN [trace |-> <<valid>> \o hook \o x.trace, success |-> FALSE, error |-> x.error]
        ELSE [trace |-> <<valid>> \o hook \o x.trace, success |-> TRUE, error |-> x.error]

OrchestratorHandleToolRequest(cfg, tls, name, params, approved) ==
    LET who == "orchestrator"
        valid == Event("validate", who, name, params, ValidateToolRequest(tls, name, params))
        hook == IF name \in cfg.high_risk_tools
                THEN <<Event("intervention", who, name, params, approved)>> ELSE <<>>
        x == RegistryExecute(tls, who, name, params)
    IN  IF ~valid.ok
        THEN [trace |-> <<valid>>, success |-> FALSE, error |-> "validation"]
        ELSE IF name \in cfg.high_risk_tools /\ ~approved
        THEN [trace |-> <<valid>> \o hook, success |-> FALSE,
              error |-> "Tool usage rejected by human"]
        ELSE IF x.raised
        THEN [trace |-> <<valid>> \o hook \o x.trace, success |-> FALSE, error |-> x.error]
        ELSE [trace |-> <<valid>> \o hook \o x.trace, success |-> TRUE, error |-> x.error]

\* ---- the orchestrator as a state machine ----
\* ToolRegistry.register(name, func, timeout=timeout), for the names and
\* functions of `bindings`
RegisterStep(bindings, timeouts) ==
    /\ \E nf \in bindings, t \in timeouts :
         LET r == RegistryRegister(tools, nf[1], nf[2], t)
         IN  /\ tools' = r.tools
             /\ opResult' = OpResult("register", None, nf[1], ToolEntry(nf[2], t),
                                     ~r.raised, IF r.raised THEN "duplicate" ELSE None)
    /\ opTrace' = <<>>
    /\ UNCHANGED <<config, agents, nProcessed, wmVars, mmVars, inFlight, busVars>>

\* the orchestrator's tools, registered without a timeout
RegisterTool == RegisterStep({<<n, ToolCatalog[n]>> : n \in DOMAIN ToolCatalog}, {0})

\* any function of the pool under any name, with or without a timeout
RegisterAny == RegisterStep(RegistryNames \X HandlerPool, TimeoutArgs)

\* ToolRegistry.execute(name, **kwargs) called directly
ExecuteTool ==
    /\ \E n \in RegistryNames \cup {"ghost"}, kw \in ArgDicts :
         LET x == RegistryExecute(tools, "caller", n, kw)
         IN  /\ opTrace' = x.trace
             /\ opResult' = OpResult("execute", "caller", n, kw, x.success,
                                     IF x.raised THEN "raised" ELSE x.error)
    /\ UNCHANGED <<tools, config, agents, nProcessed, wmVars, mmVars, inFlight, busVars>>

\* ---- ToolRegistry.execute called by several callers at once ----
MaxCalls == 2              \* execute calls begun and not yet forgotten

Callers == <<"c1", "c2", "c3", "c4">>

\* the tools registered while calls are in flight: a coroutine that returns
\* within its deadline, a coroutine that runs past it, a function that raises
ConcurrentBindings ==
    {<<"t1", ToolCatalog["search"]>>,
     <<"t2", Function("async", "returns", 3, {})>>,
     <<"t2", ToolCatalog["code_analysis"]>>}

ConcurrentArgs == {kw \in ArgDicts : DOMAIN kw \subseteq {"query"}}

\* what execute has to report before its function is done
Pending == [raised |-> FALSE, success |-> FALSE, error |-> "pending", trace |-> <<>>]

\* One call of execute: `seen` is the entry `tool = self._tools[name]` read
\* (none for an unknown name), `order` the position of its return among the
\* returns so far (0 while it runs).
ExecuteCall(who, name, kwargs, seen, state, order, outcome) ==
    [who |-> who, name |-> name, kwargs |-> kwargs, seen |-> seen,
     state |-> state, order |-> order, outcome |-> outcome]

Returned(cs) == {i \in 1 .. Len(cs) : cs[i].state = "returned"}

\* execute up to its first await: the lookup and the parameter check raise to
\* the caller at once; otherwise the function is started (create_task for a
\* coroutine function, run_in_executor for the others) and execute waits.
BeginCall(cs, tls, name, kwargs) ==
    LET who == Callers[Len(cs) + 1]
        seen == [n \in DOMAIN tls \cap {name} |-> tls[n]]
        x == RegistryExecute(tls, who, name, kwargs)
    IN  IF x.raised
        THEN Append(cs, ExecuteCall(who, name, kwargs, seen, "returned",
                                    Cardinality(Returned(cs)) + 1, x))
        ELSE Append(cs, ExecuteCall(who, name, kwargs, seen, "running", 0, Pending))

\* execute from its await on, for the i-th call: its own function returns or
\* raises, or its own wait_for reaches the deadline and cancels its own task.
\* `task`, `result` and the try block are locals of the call.
CompleteCallSharedScope(cs, i) ==
    LET c == cs[i]
        x == RunHandler(c.seen[c.name], c.who, c.name, c.kwargs)
        n == Cardinality(Returned(cs)) + 1
    IN  [j \in 1 .. Len(cs) |->
            IF j = i \/ (x.error = "timeout" /\ cs[j].state = "running")
            THEN [cs[j] EXCEPT !.state = "returned", !.order = n, !.outcome = x]
            ELSE cs[j]]

CompleteCall(cs, i) ==
    LET c == cs[i]
        x == RunHandler(c.seen[c.name], c.who, c.name, c.kwargs)
    IN  [cs EXCEPT ![i] = [c EXCEPT !.state = "returned",
                                    !.order = Cardinality(Returned(cs)) + 1,
                                    !.outcome = x]]

\* ToolRegistry.register while calls are in flight
RegisterConcurrent == RegisterStep(ConcurrentBindings, {2})

\* a caller awaits registry.execute(name, **kwargs)
BeginExecute ==
    /\ Len(inFlight) < MaxCalls
    /\ \E n \in {"t1", "t2", "ghost"}, kw \in ConcurrentArgs :
         inFlight' = BeginCall(inFlight, tools, n, kw)
    /\ opResult' = OpResult("begin_execute", Callers[Len(inFlight) + 1], None, None, TRUE, None)
    /\ opTrace' = <<>>
    /\ UNCHANGED <<tools, config, agents, nProcessed, wmVars, mmVars, busVars>>

\* the event loop resumes one of the waiting calls, in any order
FinishExecute ==
    /\ \E i \in 1 .. Len(inFlight) :
         /\ inFlight[i].state = "running"
         /\ inFlight' = CompleteCall(inFlight, i)
         /\ opResult' = OpResult("finish_execute", inFlight[i].who, None, None, TRUE, None)
    /\ opTrace' = <<>>
    /\ UNCHANGED <<tools, config, agents, nProcessed, wmVars, mmVars, busVars>>

\* Agent.use_tool(tool_name, **kwargs) on one of the orchestrator's agents
UseTool ==
    /\ \E i \in 1 .. Len(agents), n \in ToolNames, kw \in ArgDicts :
         LET u == AgentUseTool(agents[i], tools, n, kw)
         IN  /\ opTrace' = u.trace
             /\ opResult' = OpResult("use_tool", agents[i].id, n, kw, u.success,
                                     IF u.raised THEN "raised" ELSE u.error)
    /\ UNCHANGED <<tools, config, agents, nProcessed, wmVars, mmVars, inFlight, busVars>>

\* AgentOrchestrator.handle_tool_request(tool_name, params)
HandleToolRequest ==
    /\ \E n \in ToolNames, params \in ArgDicts, approved \in HookOutcomes :
         LET h == OrchestratorHandleToolRequest(config, tools, n, params, approved)
         IN  /\ opTrace' = h.trace
             /\ opResult' = OpResult("handle_tool_request", "orchestrator", n, params,
                                     h.success, h.error)
    /\ UNCHANGED <<tools, config, agents, nProcessed, wmVars, mmVars, inFlight, busVars>>

\* Agent.process_message({"content": text}) called on an agent directly
ProcessStep(limit) ==
    /\ nProcessed + nRouted < limit
    /\ nProcessed' = nProcessed + 1
    /\ \E i \in 1 .. Len(agents), t \in Texts :
         /\ LET pm == AgentProcessMessage(agents[i], tools, t)
            IN  /\ agents' = [agents EXCEPT ![i] = pm.agent]
                /\ opTrace' = pm.trace
                /\ opResult' = OpResult("process_message", agents[i].id, None, t,
                                        pm.success, pm.error)
    /\ UNCHANGED <<tools, config, wmVars, mmVars, inFlight, busVars>>

ProcessMessage == ProcessStep(MaxMessages)

ProcessMessageAgent == ProcessStep(MaxAgentMessages)

\* Agent.start
StartAgent ==
    /\ \E i \in 1 .. Len(agents) :
         /\ agents' = [agents EXCEPT ![i].status = "idle"]
         /\ opTrace' = <<StatusSet(agents[i], "idle")>>
         /\ opResult' = OpResult("start", agents[i].id, None, None, TRUE, None)
    /\ UNCHANGED <<tools, config, nProcessed, wmVars, mmVars, inFlight, busVars>>

\* Agent.stop
StopAgent ==
    /\ \E i \in 1 .. Len(agents) :
         /\ agents' = [agents EXCEPT ![i].status = "stopped"]
         /\ opTrace' = <<StatusSet(agents[i], "stopped")>>
         /\ opResult' = OpResult("stop", agents[i].id, None, None, TRUE, None)
    /\ UNCHANGED <<tools, config, nProcessed, wmVars, mmVars, inFlight, busVars>>

\* A caller of Agent.get_memory(limit) changes the list it was given, with
\* list.clear() or list.pop().  The agent's memory follows when that list is
\* the agent's own.
GetMemoryAndMutate ==
    /\ \E i \in 1 .. Len(agents), limit \in 0 .. MaxViewLimit, change \in {"clear", "pop"} :
         LET view == GetMemory(agents[i], limit)
             changed == IF change = "clear" THEN <<>>
                        ELSE SubSeq(view.items, 1, Len(view.items) - 1)
         IN  /\ view.items # <<>>
             /\ agents' = IF view.alias THEN [agents EXCEPT ![i].memory = changed]
                                        ELSE agents
             /\ opTrace' = <<>>
             /\ opResult' = OpResult("get_memory", agents[i].id, None, limit, TRUE, None)
    /\ UNCHANGED <<tools, config, nProcessed, wmVars, mmVars, inFlight, busVars>>

\* the routing decision as logged: the text and the confidence num/den
Routing(t, d) == [text |-> t, num |-> d.num, den |-> d.den]

\* AgentOrchestrator.process_user_message(text), with process_with_agent.
\* A text that fails the safety check is answered at once, so such calls are
\* not counted among the MaxMessages messages that reach the router.
ProcessUserMessage ==
    /\ \E t \in Texts, approved \in HookOutcomes :
         LET who == "orchestrator"
             check == Event("content_safety", who, None, t, CheckContentSafety(t))
             d == RouteDecision(agents, t)
             hook == IF LowConfidence(d)
                     THEN <<Event("intervention", who, None, t, approved)>> ELSE <<>>
             decided == <<check, Event("routing", d.agent_id, None, Routing(t, d), ~d.raised)>>
             msg == Message(nRouted + 1, "direct", d.agent_id, None, t)
             r == RouteMessage(routes, subscribers, msg)
             b == RunAgentBodies(agents, tools, routes, r.calls, t)
         IN  IF ~check.ok
             THEN /\ opTrace' = <<check>>
                  /\ opResult' = OpResult("process_user_message", None, None, t,
                                          FALSE, "Safety check failed")
                  /\ UNCHANGED <<agents, busVars>>
             ELSE /\ nProcessed + nRouted < MaxMessages
                  /\ IF d.raised
                     THEN /\ opTrace' = decided
                          /\ opResult' = OpResult("process_user_message", None, None, t,
                                                  FALSE, "exception")
                          /\ UNCHANGED <<agents, busVars>>
                     ELSE IF LowConfidence(d) /\ ~approved
                     THEN /\ opTrace' = decided \o hook
                          /\ opResult' = OpResult("process_user_message", d.agent_id, None, t,
                                                  FALSE, "Routing rejected by human")
                          /\ UNCHANGED <<agents, busVars>>
                     ELSE IF CheckResourceLimits(config)
                     THEN /\ opTrace' = decided \o hook
                          /\ opResult' = OpResult("process_user_message", d.agent_id, None, t,
                                                  TRUE, "Resource limits exceeded")
                          /\ UNCHANGED <<agents, busVars>>
                     ELSE /\ opTrace' = decided \o hook
                                          \o <<Event("route_message", d.agent_id, None, t, TRUE)>>
                                          \o b.trace
                          /\ opResult' = OpResult("process_user_message", d.agent_id, None, t,
                                                  TRUE, None)
                          /\ agents' = b.agents
                          /\ history' = AddToHistory(history, msg.id)
                          /\ nRouted' = nRouted + 1
                          /\ lastOp' = "route_message"
                          /\ lastMsg' = msg
                          /\ lastCalls' = r.calls
                          /\ lastRaised' = r.raised
                          /\ UNCHANGED <<subscribers, routes>>
    /\ UNCHANGED <<tools, config, nProcessed, wmVars, mmVars, inFlight>>

\* ---- a BROADCAST whose async recipients suspend, and the route table ----
\* `for callback in self._routes.values()` walks the dict through an iterator
\* that remembers the size of the dict when it was made (used), how many
\* values it still expects (len) and where it stands (behind: the entries
\* before its position).  Each step of the loop raises RuntimeError
\* "changed size" when the dict's size is no longer `used`, ends at the end of
\* the entries, and raises RuntimeError "keys changed" when it finds an entry
\* it does not expect.  The statement `for` is outside the loop's try block, so
\* either error leaves _handle_broadcast and is caught in route_message.
\* The table is one that has had at most five insertions, so that the dict
\* has not been rebuilt (MaxRouteChanges bounds the insertions added to the
\* two of Init).
MaxRouteChanges == 2
BroadcastIds == {"a1", "a2", "a3"}

DictIterator(rts) == [used |-> Len(rts), len |-> Len(rts), behind |-> 0]

\* The loop of _handle_broadcast from the iterator's position up to the next
\* async callback (which suspends), the end, or a RuntimeError.
RECURSIVE BroadcastLoop(_, _, _, _)
BroadcastLoop(rts, it, msg, calls) ==
    IF it.used # Len(rts)
    THEN [state |-> "changed size", it |-> it, calls |-> calls]
    ELSE IF it.behind >= Len(rts)
    THEN [state |-> "done", it |-> it, calls |-> calls]
    ELSE IF it.len = 0
    THEN [state |-> "keys changed", it |-> it, calls |-> calls]
    ELSE LET e    == rts[it.behind + 1]
             next == [it EXCEPT !.len = @ - 1, !.behind = @ + 1]
             made == Append(calls, Call("route", e.agent_id, e.cb, msg))
         IN  IF e.cb.async
             THEN [state |-> "suspended", it |-> next, calls |-> made]
             ELSE BroadcastLoop(rts, next, msg, made)

\* register_route and unregister_route on the table, and what they do to an
\* iterator in progress: an entry deleted before its position is one entry
\* less behind it; a new key goes to the end; an existing key keeps its place.
RoutesRegister(rts, id, cb) ==
    IF id \in RouteKeys(rts)
    THEN [rts EXCEPT ![RouteIndex(rts, id)].cb = cb]
    ELSE Append(rts, [agent_id |-> id, cb |-> cb])

RoutesUnregister(rts, id) ==
    IF id \in RouteKeys(rts) THEN RemoveAt(rts, RouteIndex(rts, id)) ELSE rts

IteratorAfterUnregister(rts, it, id) ==
    IF id \in RouteKeys(rts) /\ RouteIndex(rts, id) <= it.behind
    THEN [it EXCEPT !.behind = @ - 1] ELSE it

Broadcast(msg, it, calls, atCall, touched, changes) ==
    [msg |-> msg, it |-> it, calls |-> calls, atCall |-> atCall,
     touched |-> touched, changes |-> changes]

\* The loop ran from b.it on table rts: the call stays suspended, or
\* route_message returns (after logging the RuntimeError, if any).
BroadcastRuns(rts, b) ==
    LET r == BroadcastLoop(rts, b.it, b.msg, b.calls)
    IN  IF r.state = "suspended"
        THEN /\ inFlight' = <<[b EXCEPT !.it = r.it, !.calls = r.calls]>>
             /\ lastOp' = "broadcast_suspended"
             /\ lastMsg' = b.msg
             /\ lastCalls' = r.calls
             /\ lastRaised' = FALSE
             /\ UNCHANGED opResult
        ELSE /\ inFlight' = <<>>
             /\ lastOp' = "route_message"
             /\ lastMsg' = b.msg
             /\ lastCalls' = r.calls
             /\ lastRaised' = FALSE
             /\ opResult' = OpResult("route_message", None, None,
                                     [atCall |-> b.atCall, touched |-> b.touched,
                                      changes |-> b.changes],
                                     r.state = "done",
                                     IF r.state = "done" THEN None ELSE r.state)

\* route_message(BROADCAST), the router's first message
BeginBroadcast ==
    /\ history = <<>>
    /\ inFlight = <<>>
    /\ LET msg == Message(1, "broadcast", None, None, None)
       IN  /\ history' = AddToHistory(history, msg.id)
           /\ BroadcastRuns(routes, Broadcast(msg, DictIterator(routes), <<>>,
                                              RouteKeys(routes), {}, 0))
    /\ nRouted' = nRouted + 1
    /\ UNCHANGED <<subscribers, routes, tools, config, agents, nProcessed, opTrace>>
    /\ UNCHANGED <<wmVars, mmVars>>

\* the suspended callback returns and the loop goes on
ResumeBroadcast ==
    /\ inFlight # <<>>
    /\ BroadcastRuns(routes, inFlight[1])
    /\ UNCHANGED <<subscribers, routes, history, nRouted>>
    /\ UNCHANGED <<tools, config, agents, nProcessed, opTrace, wmVars, mmVars>>

\* another task calls register_route while the broadcast is suspended
RegisterRouteMeanwhile ==
    /\ inFlight # <<>>
    /\ inFlight[1].changes < MaxRouteChanges
    /\ \E id \in BroadcastIds, cb \in Callbacks :
         /\ routes' = RoutesRegister(routes, id, cb)
         /\ inFlight' = <<[inFlight[1] EXCEPT !.touched = @ \cup {id},
                                               !.changes = @ + 1]>>
    /\ BusQuiet("register_route", FALSE)
    /\ UNCHANGED <<subscribers, history, nRouted>>
    /\ UNCHANGED <<wmVars, mmVars, orchVars>>

\* another task calls unregister_route while the broadcast is suspended
UnregisterRouteMeanwhile ==
    /\ inFlight # <<>>
    /\ inFlight[1].changes < MaxRouteChanges
    /\ \E id \in BroadcastIds :
         /\ routes' = RoutesUnregister(routes, id)
         /\ inFlight' = <<[inFlight[1] EXCEPT
                              !.it = IteratorAfterUnregister(routes, @, id),
                              !.touched = @ \cup {id},
                              !.changes = @ + 1]>>
    /\ BusQuiet("unregister_route", FALSE)
    /\ UNCHANGED <<subscribers, history, nRouted>>
    /\ UNCHANGED <<wmVars, mmVars, orchVars>>

\* ---- overlapping process_message calls on one agent ----
\* A call runs on the event loop without interruption up to its first await
\* that suspends: the await of the tool function inside ToolRegistry.execute
\* (wait_for on a created task, or run_in_executor), reached through
\* _generate_response and use_tool.  A call that never gets there (rejected
\* text, base agent, missing capability, unsafe or unknown tool, missing
\* parameter) returns without suspending.
Suspends(agent, tls, text) ==
    /\ CheckContentSafety(text)
    /\ \E k \in DOMAIN GenerateResponse(agent, tls, text).trace :
           GenerateResponse(agent, tls, text).trace[k].ev = "handler"

ProcessCall(who, text) == [who |-> who, text |-> text]

\* process_message up to the suspension: status, safety check, "received" entry
BeginProcess(agent, text) ==
    [agent EXCEPT !.status = "processing",
                  !.memory = AddToMemory(agent.memory,
                                         [type |-> "received", content |-> text])]

\* process_message from the resumption on.  _generate_response of the three
\* agent types returns its error dict (see GenerateResponse); the call appends
\* the "sent" entry, sets the status and returns the response.
ResumeProcess(agent) ==
    [agent EXCEPT !.status = "idle",
                  !.memory = AddToMemory(agent.memory,
                                         [type |-> "sent", content |-> "error_dict"])]

\* A call of process_message starts.  If it does not suspend it also returns.
BeginProcessMessage ==
    /\ nProcessed < MaxAgentMessages
    /\ nProcessed' = nProcessed + 1
    /\ \E i \in 1 .. Len(agents), t \in Texts :
         IF Suspends(agents[i], tools, t)
         THEN /\ agents' = [agents EXCEPT ![i] = BeginProcess(agents[i], t)]
              /\ inFlight' = Append(inFlight, ProcessCall(agents[i].id, t))
              /\ opTrace' = <<StatusSet(agents[i], "processing")>>
              /\ opResult' = OpResult("begin_process_message", agents[i].id, None, t,
                                      TRUE, None)
         ELSE LET pm == AgentProcessMessage(agents[i], tools, t)
              IN  /\ agents' = [agents EXCEPT ![i] = pm.agent]
                  /\ opTrace' = pm.trace
                  /\ opResult' = OpResult("process_message", agents[i].id, None, t,
                                          pm.success, pm.error)
                  /\ UNCHANGED inFlight
    /\ UNCHANGED <<tools, config, wmVars, mmVars, busVars>>

\* The tool function of one suspended call finishes (in any order: the
\* functions run in tasks and executor threads of their own) and the call
\* runs to its return.
FinishProcessMessage ==
    /\ \E k \in 1 .. Len(inFlight) :
         LET c == inFlight[k]
             i == AgentIndex(agents, c.who)
             rest == SubSeq(inFlight, 1, k - 1) \o SubSeq(inFlight, k + 1, Len(inFlight))
         IN  /\ agents' = [agents EXCEPT ![i] = ResumeProcess(agents[i])]
             /\ inFlight' = rest
             /\ opTrace' = <<StatusSet(agents[i], "idle")>>
             /\ opResult' = OpResult("process_message", c.who, None, c.text,
                                     FALSE, "Failed to generate response")
    /\ UNCHANGED <<tools, config, nProcessed, wmVars, mmVars, busVars>>

\* ---- the text checks of SafetyGuardrails, with their results ----
MaxMatches == 2            \* matches of one family of patterns in one input

\* An argument of a check: a str, described by the number of matches it holds
\* for each family of patterns, or a value that is no str (None, an int).
CheckInput(kind, dangerous, resource, harmful, pii) ==
    [kind |-> kind, dangerous |-> dangerous, resource |-> resource,
     harmful |-> harmful, pii |-> pii]

CheckInputs ==
    {CheckInput("str", d, r, h, p) : d \in 0 .. MaxMatches, r \in 0 .. MaxMatches,
                                     h \in 0 .. MaxMatches, p \in 0 .. MaxMatches}
    \cup {CheckInput("none", 0, 0, 0, 0), CheckInput("int", 0, 0, 0, 0)}

\* `for match in re.finditer(pattern, text): issues.append({"type": ...})`:
\* one issue for every match, an issue being told by its type
Issues(type, n) == [i \in 1 .. n |-> type]

\* what a check does: re.finditer raises TypeError for an argument that is
\* not a str, and nothing in the checks catches it
CheckResult(x, issues) ==
    IF x.kind # "str"
    THEN [raised |-> TRUE, safe |-> FALSE, issues |-> <<>>]
    ELSE [raised |-> FALSE, safe |-> Len(issues) = 0, issues |-> issues]

\* SafetyGuardrails.check_code_safety
CheckCodeSafety(x) == CheckResult(x, Issues("dangerous_command", x.dangerous))

\* SafetyGuardrails.check_resource_limits
GuardrailsCheckResourceLimits(x) == CheckResult(x, Issues("resource", x.resource))

\* SafetyGuardrails.check_content_safety, with its issues
CheckContentSafetyResult(x) ==
    CheckResult(x, Issues("harmful_content", x.harmful) \o Issues("pii_detected", x.pii))

\* SafetyGuardrails.check_all_safety
CheckAllSafetyWithoutResources(x) ==
    CheckResult(x, CheckCodeSafety(x).issues \o CheckContentSafetyResult(x).issues)

CheckAllSafety(x) ==
    CheckResult(x, CheckCodeSafety(x).issues \o GuardrailsCheckResourceLimits(x).issues
                       \o CheckContentSafetyResult(x).issues)

\* a check is called and its result kept: the issues in opTrace
CheckStep(op, r, x) ==
    /\ opResult' = OpResult(op, None, None, x, r.safe, IF r.raised THEN "raised" ELSE None)
    /\ opTrace' = r.issues
    /\ UNCHANGED <<tools, config, agents, nProcessed, wmVars, mmVars, inFlight, busVars>>

CheckCode == \E x \in CheckInputs : CheckStep("check_code_safety", CheckCodeSafety(x), x)
CheckResources ==
    \E x \in CheckInputs : CheckStep("check_resource_limits", GuardrailsCheckResourceLimits(x), x)
CheckContent ==
    \E x \in CheckInputs : CheckStep("check_content_safety", CheckContentSafetyResult(x), x)
CheckAll == \E x \in CheckInputs : CheckStep("check_all_safety", CheckAllSafety(x), x)

\* ---- AgentOrchestrator.handle_agent_handoff ----
\* the message handle_agent_handoff constructs: Message(content, DIRECT,
\* sender_id, recipient_id, metadata={"handoff": True}); the metadata has no
\* event_type
HandoffMessage(id, from, to, content) ==
    [id |-> id, type |-> "direct", recipient_id |-> to, event_type |-> None,
     content |-> content, sender_id |-> from, handoff |-> TRUE]

HandoffIds(agts) == {agts[i].id : i \in 1 .. Len(agts)} \cup {"ghost"}

\* handle_agent_handoff up to its return: `routed` says whether route_message
\* was awaited, `msg` is then the message, whose id is returned as handoff_id.
AgentHandoffRecipientOnly(agts, id, from, to) ==
    IF to \notin {agts[i].id : i \in 1 .. Len(agts)}
    THEN [success |-> FALSE, error |-> "Invalid agent ID", routed |-> FALSE,
          msg |-> HandoffMessage(0, from, to, "task"), handoff_id |-> 0]
    ELSE [success |-> TRUE, error |-> None, routed |-> TRUE,
          msg |-> HandoffMessage(id, from, to, "task"), handoff_id |-> id]

AgentHandoff(agts, id, from, to) ==
    LET known == {agts[i].id : i \in 1 .. Len(agts)}
    IN  IF from \notin known \/ to \notin known
        THEN [success |-> FALSE, error |-> "Invalid agent ID", routed |-> FALSE,
              msg |-> HandoffMessage(0, from, to, "task"), handoff_id |-> 0]
        ELSE [success |-> TRUE, error |-> None, routed |-> TRUE,
              msg |-> HandoffMessage(id, from, to, "task"), handoff_id |-> id]

\* await orchestrator.handle_agent_handoff(from_id, to_id, message)
HandleAgentHandoff ==
    /\ \E from \in HandoffIds(agents), to \in HandoffIds(agents) :
         LET h == AgentHandoff(agents, nRouted + 1, from, to)
             r == RouteMessage(routes, subscribers, h.msg)
             b == RunAgentBodies(agents, tools, routes, r.calls, h.msg.content)
         IN  /\ opResult' = OpResult("handle_agent_handoff", None, None,
                                     [from |-> from, to |-> to, handoff_id |-> h.handoff_id],
                                     h.success, h.error)
             /\ IF ~h.routed
                THEN /\ opTrace' = <<>>
                     /\ UNCHANGED <<agents, busVars>>
                ELSE /\ nProcessed + nRouted < MaxMessages
                     /\ opTrace' = <<Event("route_message", to, None, h.msg.content, TRUE)>>
                                      \o b.trace
                     /\ agents' = b.agents
                     /\ history' = AddToHistory(history, h.msg.id)
                     /\ nRouted' = nRouted + 1
                     /\ lastOp' = "route_message"
                     /\ lastMsg' = h.msg
                     /\ lastCalls' = r.calls
                     /\ lastRaised' = r.raised
                     /\ UNCHANGED <<subscribers, routes>>
    /\ UNCHANGED <<tools, config, nProcessed, wmVars, mmVars, inFlight>>

(***************************************************************************)
(*                  LongTermMemory and MemoryManager                       *)
(***************************************************************************)
DefaultThreshold == [num |-> 7, den |-> 10]    \* consolidation_threshold = 0.7
ManagerCapacity == 2       \* capacity of the WorkingMemory handed to the manager

MaxEntries == 3            \* MemoryEntry objects created
MaxTasks == 2              \* start_consolidation calls

\* consolidation_threshold arguments: the default, and 1.0, which the highest
\* importance equals
Thresholds == {DefaultThreshold, [num |-> 1, den |-> 1]}

\* entry.importance >= threshold, an importance level k standing for k / MaxImportance
AtLeast(importance, threshold) == importance * threshold.den >= threshold.num * MaxImportance

\* Values of MemoryEntry.content (typed Any): a str and a tuple.
Contents == {"text", "tuple"}

\* ids given to the LongTermMemory on its own; "index" is a str like any other
StoreIds == {"m1", "index"}
ManagerIds == {"m1", "m2"}

\* A MemoryEntry with all its fields; the timestamp counts creations.
ManagedEntry(id, content, timestamp, importance) ==
    [id |-> id, content |-> content, timestamp |-> timestamp, metadata |-> EmptyDict,
     memory_type |-> "fact", importance |-> importance]

NoEntry == ManagedEntry("", "text", 0, 0)

\* datetime.isoformat(): a str from which the datetime can be read back
IsoFormat(timestamp) == [iso |-> timestamp]

\* json.load(json.dump(value)): a tuple is written as an array and read as a list
JsonLoaded(value) == IF value = "tuple" THEN "list" ELSE value

\* what json.load reads from the file json.dump(entry.to_dict()) wrote
EntryFile(e) ==
    [id |-> e.id, content |-> JsonLoaded(e.content), timestamp |-> IsoFormat(e.timestamp),
     metadata |-> e.metadata, memory_type |-> e.memory_type, importance |-> e.importance]

\* the record add puts into _memory_index
IndexRecord(e) ==
    [id |-> e.id, memory_type |-> e.memory_type, timestamp |-> IsoFormat(e.timestamp),
     importance |-> e.importance, metadata |-> e.metadata]

\* The state of a LongTermMemory: _memory_index, and the files of storage_path
\* by stem ("m1" for m1.json).  index.json has the stem "index".
Store(index, files) == [index |-> index, files |-> files]

DictRemove(d, k) == [x \in DOMAIN d \ {k} |-> d[x]]

\* LongTermMemory._save_index
SaveIndex(st) == Store(st.index, DictSet(st.files, "index", st.index))

\* LongTermMemory.add: writes {id}.json, sets the index record, saves the index
LongTermAdd(st, e) ==
    SaveIndex(Store(DictSet(st.index, e.id, IndexRecord(e)),
                    DictSet(st.files, e.id, EntryFile(e))))

\* LongTermMemory.get: found = FALSE stands for None
NotFound == [found |-> FALSE, record |-> EmptyDict]

LongTermGet(st, id) ==
    IF id \notin DOMAIN st.index THEN NotFound
    ELSE IF id \notin DOMAIN st.files THEN NotFound
    ELSE [found |-> TRUE, record |-> st.files[id]]

\* LongTermMemory.delete
LongTermDelete(st, id) ==
    IF id \notin DOMAIN st.index THEN [ok |-> FALSE, store |-> st]
    ELSE LET saved == SaveIndex(Store(DictRemove(st.index, id), st.files))
         IN  [ok |-> TRUE, store |-> Store(saved.index, DictRemove(saved.files, id))]

\* sorted(key=timestamp, reverse=True): stable, latest first
RECURSIVE InsertByTimestampDesc(_, _)
InsertByTimestampDesc(sorted, e) ==
    IF sorted = <<>> THEN <<e>>
    ELSE IF Head(sorted).timestamp >= e.timestamp
         THEN <<Head(sorted)>> \o InsertByTimestampDesc(Tail(sorted), e)
         ELSE <<e>> \o sorted

\* WorkingMemory.get_recent()
RECURSIVE GetRecent(_)
GetRecent(memory) ==
    IF memory = <<>> THEN <<>>
    ELSE InsertByTimestampDesc(GetRecent(SubSeq(memory, 1, Len(memory) - 1)), memory[Len(memory)])

\* The state of a MemoryManager's two tiers
Tiers(working, store) == [working |-> working, store |-> store]

\* MemoryManager.add_memory
ManagerAddMemoryStrict(t, capacity, threshold, e) ==
    IF e.importance * threshold.den > threshold.num * MaxImportance
    THEN Tiers(t.working, LongTermAdd(t.store, e))
    ELSE Tiers(WorkingMemoryAdd(t.working, capacity, e), t.store)

ManagerAddMemory(t, capacity, threshold, e) ==
    IF AtLeast(e.importance, threshold)
    THEN Tiers(t.working, LongTermAdd(t.store, e))
    ELSE Tiers(WorkingMemoryAdd(t.working, capacity, e), t.store)

\* MemoryManager._consolidate_memory: the loop over get_recent(), then clear().
\* Nothing in it awaits, so a cycle is one step.
RECURSIVE PromoteAll(_, _, _)
PromoteAll(st, entries, threshold) ==
    IF entries = <<>> THEN st
    ELSE PromoteAll(IF AtLeast(Head(entries).importance, threshold)
                    THEN LongTermAdd(st, Head(entries)) ELSE st,
                    Tail(entries), threshold)

\* A cycle whose scan ran before the newest entry was added and whose clear
\* ran after it: what a suspension between the loop and clear() would allow.
ConsolidateMemoryStaleScan(t, threshold) ==
    Tiers(<<>>, PromoteAll(t.store,
                           GetRecent(SubSeq(t.working, 1, Len(t.working) - 1)),
                           threshold))

ConsolidateMemory(t, threshold) ==
    Tiers(<<>>, PromoteAll(t.store, GetRecent(t.working), threshold))

\* ---- the memory classes as a state machine ----
MemoryOp(op, entry, ok, tick) == [op |-> op, entry |-> entry, ok |-> ok, tick |-> tick]

CurrentStore == Store(ltmIndex, ltmFiles)
CurrentTiers == Tiers(wmMemory, CurrentStore)

\* LongTermMemory.add(entry), for entries with an id of `ids` and a content of `contents`
LongTermAddStep(ids, contents) ==
    /\ mmLast.tick < MaxEntries
    /\ \E id \in ids, c \in contents, imp \in Importances :
         LET e == ManagedEntry(id, c, mmLast.tick + 1, imp)
             st == LongTermAdd(CurrentStore, e)
         IN  /\ ltmIndex' = st.index
             /\ ltmFiles' = st.files
             /\ mmLast' = MemoryOp("add", e, TRUE, mmLast.tick + 1)
    /\ UNCHANGED <<wmVars, mmConfig, consolTasks, consolRef, busVars, orchVars, inFlight>>

StoreAdd == LongTermAddStep(StoreIds, Contents)

\* LongTermMemory.delete(entry_id)
LongTermDeleteStep(ids) ==
    /\ \E id \in ids :
         LET r == LongTermDelete(CurrentStore, id)
         IN  /\ ltmIndex' = r.store.index
             /\ ltmFiles' = r.store.files
             /\ mmLast' = MemoryOp("delete", ManagedEntry(id, "text", 0, 0), r.ok, mmLast.tick)
    /\ UNCHANGED <<wmVars, mmConfig, consolTasks, consolRef, busVars, orchVars, inFlight>>

StoreDelete == LongTermDeleteStep(StoreIds)
ManagerDelete == LongTermDeleteStep(ManagerIds)

\* manager.add_memory(entry)
AddMemory ==
    /\ mmLast.tick < MaxEntries
    /\ \E id \in ManagerIds, imp \in Importances :
         LET e == ManagedEntry(id, "text", mmLast.tick + 1, imp)
             t == ManagerAddMemory(CurrentTiers, wmCapacity, mmConfig.threshold, e)
         IN  /\ wmMemory' = t.working
             /\ ltmIndex' = t.store.index
             /\ ltmFiles' = t.store.files
             /\ mmLast' = MemoryOp("add_memory", e, TRUE, mmLast.tick + 1)
    /\ UNCHANGED <<wmCapacity, wmSeen, mmConfig, consolTasks, consolRef, busVars, orchVars, inFlight>>

\* manager.working_memory.add(entry): a component remembers something in
\* working memory itself
WorkingAdd ==
    /\ mmLast.tick < MaxEntries
    /\ \E id \in ManagerIds, imp \in Importances :
         LET e == ManagedEntry(id, "text", mmLast.tick + 1, imp)
         IN  /\ wmMemory' = WorkingMemoryAdd(wmMemory, wmCapacity, e)
             /\ mmLast' = MemoryOp("working_add", e, TRUE, mmLast.tick + 1)
    /\ UNCHANGED <<wmCapacity, wmSeen, ltmIndex, ltmFiles, mmConfig, consolTasks, consolRef,
                   busVars, orchVars, inFlight>>

\* await manager.start_consolidation(): a new task, and the manager's one
\* reference now points to it
StartConsolidation ==
    /\ Len(consolTasks) < MaxTasks
    /\ consolTasks' = Append(consolTasks, "sleeping")
    /\ consolRef' = Len(consolTasks) + 1
    /\ mmLast' = MemoryOp("start_consolidation", NoEntry, TRUE, mmLast.tick)
    /\ UNCHANGED <<wmVars, ltmIndex, ltmFiles, mmConfig, busVars, orchVars, inFlight>>

\* await manager.stop_consolidation(): cancels the task the reference points
\* to and waits for it; the reference is left as it is
StopConsolidation ==
    /\ consolTasks' = IF consolRef = 0 THEN consolTasks
                      ELSE [consolTasks EXCEPT ![consolRef] = "cancelled"]
    /\ mmLast' = MemoryOp("stop_consolidation", NoEntry, consolRef # 0, mmLast.tick)
    /\ UNCHANGED <<wmVars, ltmIndex, ltmFiles, mmConfig, consolRef, busVars, orchVars, inFlight>>

\* _consolidation_loop: a task that is not cancelled wakes from its sleep,
\* runs _consolidate_memory and sleeps again
ConsolidationCycle ==
    /\ \E k \in 1 .. Len(consolTasks) : consolTasks[k] = "sleeping"
    /\ LET t == ConsolidateMemory(CurrentTiers, mmConfig.threshold)
       IN  /\ wmMemory' = t.working
           /\ ltmIndex' = t.store.index
           /\ ltmFiles' = t.store.files
    /\ mmLast' = MemoryOp("consolidate", NoEntry, TRUE, mmLast.tick)
    /\ UNCHANGED <<wmCapacity, wmSeen, mmConfig, consolTasks, consolRef, busVars, orchVars, inFlight>>

(***************************************************************************)
(*                          Specifications                                 *)
(***************************************************************************)
\* WorkingMemory alone, for every capacity 0..MaxCapacity.
InitWM ==
    /\ wmCapacity \in 0 .. MaxCapacity
    /\ wmMemory = <<>>
    /\ wmSeen = <<>>
    /\ inFlight = <<>>
    /\ ltmIndex = EmptyDict
    /\ ltmFiles = EmptyDict
    /\ mmConfig = None
    /\ consolTasks = <<>>
    /\ consolRef = 0
    /\ mmLast = None
    /\ subscribers = EmptyDict
    /\ routes = <<>>
    /\ history = <<>>
    /\ nRouted = 0
    /\ lastOp = "init"
    /\ lastMsg = None
    /\ lastCalls = <<>>
    /\ lastRaised = FALSE
    /\ tools = EmptyDict
    /\ config = None
    /\ agents = <<>>
    /\ nProcessed = 0
    /\ opTrace = <<>>
    /\ opResult = NoResult

NextWM == WMAdd \/ WMClear

SpecWM == InitWM /\ [][NextWM]_vars

\* EventBus and MessageRouter, from construction.
InitBus ==
    /\ wmCapacity = 0
    /\ wmMemory = <<>>
    /\ wmSeen = <<>>
    /\ inFlight = <<>>
    /\ ltmIndex = EmptyDict
    /\ ltmFiles = EmptyDict
    /\ mmConfig = None
    /\ consolTasks = <<>>
    /\ consolRef = 0
    /\ mmLast = None
    /\ subscribers = EmptyDict
    /\ routes = <<>>
    /\ history = <<>>
    /\ nRouted = 0
    /\ lastOp = "init"
    /\ lastMsg = None
    /\ lastCalls = <<>>
    /\ lastRaised = FALSE
    /\ tools = EmptyDict
    /\ config = None
    /\ agents = <<>>
    /\ nProcessed = 0
    /\ opTrace = <<>>
    /\ opResult = NoResult

NextBus == Subscribe \/ Unsubscribe \/ RegisterRoute \/ UnregisterRoute
           \/ RouteMessageStep \/ PublishStep

SpecBus == InitBus /\ [][NextBus]_vars

\* The router with two routes and three subscriptions in place, routed past
\* its history limit.
InitHistory ==
    /\ wmCapacity = 0
    /\ wmMemory = <<>>
    /\ wmSeen = <<>>
    /\ inFlight = <<>>
    /\ ltmIndex = EmptyDict
    /\ ltmFiles = EmptyDict
    /\ mmConfig = None
    /\ consolTasks = <<>>
    /\ consolRef = 0
    /\ mmLast = None
    /\ subscribers = DictSet(DictSet(EmptyDict, "system", <<CbAsync>>),
                             "e1", <<CbSyncRaise, CbSync>>)
    /\ routes = <<[agent_id |-> "a1", cb |-> CbSync], [agent_id |-> "a2", cb |-> CbSyncRaise]>>
    /\ history = <<>>
    /\ nRouted = 0
    /\ lastOp = "init"
    /\ lastMsg = None
    /\ lastCalls = <<>>
    /\ lastRaised = FALSE
    /\ tools = EmptyDict
    /\ config = None
    /\ agents = <<>>
    /\ nProcessed = 0
    /\ opTrace = <<>>
    /\ opResult = NoResult

RouteMessageLong == RouteStep(HistoryLimit + HistoryOverrun) /\ UNCHANGED <<wmVars, mmVars, inFlight, orchVars>>

NextHistory == RouteMessageLong

SpecHistory == InitHistory /\ [][NextHistory]_vars

\* The orchestrator as constructed from a configuration, with an empty registry.
Init ==
    /\ wmCapacity = 0
    /\ wmMemory = <<>>
    /\ wmSeen = <<>>
    /\ inFlight = <<>>
    /\ ltmIndex = EmptyDict
    /\ ltmFiles = EmptyDict
    /\ mmConfig = None
    /\ consolTasks = <<>>
    /\ consolRef = 0
    /\ mmLast = None
    /\ config \in Configs
    /\ agents = [i \in 1 .. Len(config.agents) |->
                    NewAgent(config.agents[i].id, config.agents[i].type,
                             config.agents[i].capabilities)]
    /\ routes = [i \in 1 .. Len(config.agents) |->
                    [agent_id |-> config.agents[i].id,
                     cb |-> AgentRouteCallback(config.agents[i].id)]]
    /\ subscribers = OrchestratorSubscribers
    /\ history = <<>>
    /\ nRouted = 0
    /\ lastOp = "init"
    /\ lastMsg = None
    /\ lastCalls = <<>>
    /\ lastRaised = FALSE
    /\ tools = EmptyDict
    /\ nProcessed = 0
    /\ opTrace = <<>>
    /\ opResult = NoResult

\* Messages: agents called directly and through process_user_message.
Next == RegisterTool \/ ProcessMessage \/ ProcessUserMessage \/ HandleAgentHandoff

Spec == Init /\ [][Next]_vars

\* Tools: agents' use_tool and the orchestrator's handle_tool_request.
NextTools == RegisterTool \/ UseTool \/ HandleToolRequest

SpecTools == Init /\ [][NextTools]_vars

\* One agent of any type on its own, constructed with its default capabilities
\* over an empty registry: its life cycle, its messages and its memory.
InitAgent ==
    /\ wmCapacity = 0
    /\ wmMemory = <<>>
    /\ wmSeen = <<>>
    /\ inFlight = <<>>
    /\ ltmIndex = EmptyDict
    /\ ltmFiles = EmptyDict
    /\ mmConfig = None
    /\ consolTasks = <<>>
    /\ consolRef = 0
    /\ mmLast = None
    /\ subscribers = EmptyDict
    /\ routes = <<>>
    /\ history = <<>>
    /\ nRouted = 0
    /\ lastOp = "init"
    /\ lastMsg = None
    /\ lastCalls = <<>>
    /\ lastRaised = FALSE
    /\ tools = EmptyDict
    /\ config = None
    /\ agents \in {<<NewAgent("agent", type, {})>> : type \in AgentTypes}
    /\ nProcessed = 0
    /\ opTrace = <<>>
    /\ opResult = NoResult

NextAgent == RegisterTool \/ StartAgent \/ StopAgent \/ ProcessMessageAgent
             \/ GetMemoryAndMutate

SpecAgent == InitAgent /\ [][NextAgent]_vars

\* The tool registry on its own, from construction.
InitRegistry ==
    /\ wmCapacity = 0
    /\ wmMemory = <<>>
    /\ wmSeen = <<>>
    /\ inFlight = <<>>
    /\ ltmIndex = EmptyDict
    /\ ltmFiles = EmptyDict
    /\ mmConfig = None
    /\ consolTasks = <<>>
    /\ consolRef = 0
    /\ mmLast = None
    /\ subscribers = EmptyDict
    /\ routes = <<>>
    /\ history = <<>>
    /\ nRouted = 0
    /\ lastOp = "init"
    /\ lastMsg = None
    /\ lastCalls = <<>>
    /\ lastRaised = FALSE
    /\ tools = EmptyDict
    /\ config = None
    /\ agents = <<>>
    /\ nProcessed = 0
    /\ opTrace = <<>>
    /\ opResult = NoResult

NextRegistry == RegisterAny \/ ExecuteTool

SpecRegistry == InitRegistry /\ [][NextRegistry]_vars

\* ---- the registry with several execute calls in flight ----
InitConcurrent ==
    /\ wmCapacity = 0
    /\ wmMemory = <<>>
    /\ wmSeen = <<>>
    /\ inFlight = <<>>
    /\ ltmIndex = EmptyDict
    /\ ltmFiles = EmptyDict
    /\ mmConfig = None
    /\ consolTasks = <<>>
    /\ consolRef = 0
    /\ mmLast = None
    /\ subscribers = EmptyDict
    /\ routes = <<>>
    /\ history = <<>>
    /\ nRouted = 0
    /\ lastOp = "init"
    /\ lastMsg = None
    /\ lastCalls = <<>>
    /\ lastRaised = FALSE
    /\ tools = EmptyDict
    /\ config = None
    /\ agents = <<>>
    /\ nProcessed = 0
    /\ opTrace = <<>>
    /\ opResult = NoResult

NextConcurrent == RegisterConcurrent \/ BeginExecute \/ FinishExecute

SpecConcurrent == InitConcurrent /\ [][NextConcurrent]_vars

\* ---- a LongTermMemory on its own, over an empty storage_path ----
InitStore ==
    /\ wmCapacity = 0
    /\ wmMemory = <<>>
    /\ wmSeen = <<>>
    /\ inFlight = <<>>
    /\ ltmIndex = EmptyDict
    /\ ltmFiles = EmptyDict
    /\ mmConfig = None
    /\ consolTasks = <<>>
    /\ consolRef = 0
    /\ mmLast = MemoryOp("init", NoEntry, TRUE, 0)
    /\ subscribers = EmptyDict
    /\ routes = <<>>
    /\ history = <<>>
    /\ nRouted = 0
    /\ lastOp = "init"
    /\ lastMsg = None
    /\ lastCalls = <<>>
    /\ lastRaised = FALSE
    /\ tools = EmptyDict
    /\ config = None
    /\ agents = <<>>
    /\ nProcessed = 0
    /\ opTrace = <<>>
    /\ opResult = NoResult

NextStore == StoreAdd \/ StoreDelete

SpecStore == InitStore /\ [][NextStore]_vars

\* ---- a MemoryManager over an empty WorkingMemory and LongTermMemory ----
InitManager ==
    /\ wmCapacity = ManagerCapacity
    /\ wmMemory = <<>>
    /\ wmSeen = <<>>
    /\ inFlight = <<>>
    /\ ltmIndex = EmptyDict
    /\ ltmFiles = EmptyDict
    /\ mmConfig \in {[threshold |-> th] : th \in Thresholds}
    /\ consolTasks = <<>>
    /\ consolRef = 0
    /\ mmLast = MemoryOp("init", NoEntry, TRUE, 0)
    /\ subscribers = EmptyDict
    /\ routes = <<>>
    /\ history = <<>>
    /\ nRouted = 0
    /\ lastOp = "init"
    /\ lastMsg = None
    /\ lastCalls = <<>>
    /\ lastRaised = FALSE
    /\ tools = EmptyDict
    /\ config = None
    /\ agents = <<>>
    /\ nProcessed = 0
    /\ opTrace = <<>>
    /\ opResult = NoResult

NextManager ==
    \/ AddMemory
    \/ WorkingAdd
    \/ ManagerDelete
    \/ StartConsolidation
    \/ StopConsolidation
    \/ ConsolidationCycle

SpecManager == InitManager /\ [][NextManager]_vars

\* ---- a SafetyGuardrails object on its own ----
\* A router on which two routes have been registered, routing a broadcast
\* while routes are registered and unregistered.
InitBroadcast ==
    /\ wmCapacity = 0
    /\ wmMemory = <<>>
    /\ wmSeen = <<>>
    /\ inFlight = <<>>
    /\ ltmIndex = EmptyDict
    /\ ltmFiles = EmptyDict
    /\ mmConfig = None
    /\ consolTasks = <<>>
    /\ consolRef = 0
    /\ mmLast = None
    /\ subscribers = EmptyDict
    /\ routes \in {<<[agent_id |-> "a1", cb |-> c1], [agent_id |-> "a2", cb |-> c2]>> :
                      c1 \in Callbacks, c2 \in Callbacks}
    /\ history = <<>>
    /\ nRouted = 0
    /\ lastOp = "init"
    /\ lastMsg = None
    /\ lastCalls = <<>>
    /\ lastRaised = FALSE
    /\ tools = EmptyDict
    /\ config = None
    /\ agents = <<>>
    /\ nProcessed = 0
    /\ opTrace = <<>>
    /\ opResult = NoResult

NextBroadcast == BeginBroadcast \/ ResumeBroadcast \/ RegisterRouteMeanwhile
                 \/ UnregisterRouteMeanwhile

SpecBroadcast == InitBroadcast /\ [][NextBroadcast]_vars

\* One agent of each type, the orchestrator's tools registered as it goes, and
\* calls of process_message that overlap.
InitOverlap ==
    /\ wmCapacity = 0
    /\ wmMemory = <<>>
    /\ wmSeen = <<>>
    /\ inFlight = <<>>
    /\ ltmIndex = EmptyDict
    /\ ltmFiles = EmptyDict
    /\ mmConfig = None
    /\ consolTasks = <<>>
    /\ consolRef = 0
    /\ mmLast = None
    /\ subscribers = EmptyDict
    /\ routes = <<>>
    /\ history = <<>>
    /\ nRouted = 0
    /\ lastOp = "init"
    /\ lastMsg = None
    /\ lastCalls = <<>>
    /\ lastRaised = FALSE
    /\ tools = EmptyDict
    /\ config = None
    /\ agents \in {<<NewAgent("agent", type, {})>> : type \in AgentTypes}
    /\ nProcessed = 0
    /\ opTrace = <<>>
    /\ opResult = NoResult

NextOverlap == RegisterTool \/ BeginProcessMessage \/ FinishProcessMessage

SpecOverlap == InitOverlap /\ [][NextOverlap]_vars

InitSafety ==
    /\ wmCapacity = 0
    /\ wmMemory = <<>>
    /\ wmSeen = <<>>
    /\ inFlight = <<>>
    /\ ltmIndex = EmptyDict
    /\ ltmFiles = EmptyDict
    /\ mmConfig = None
    /\ consolTasks = <<>>
    /\ consolRef = 0
    /\ mmLast = None
    /\ subscribers = EmptyDict
    /\ routes = <<>>
    /\ history = <<>>
    /\ nRouted = 0
    /\ lastOp = "init"
    /\ lastMsg = None
    /\ lastCalls = <<>>
    /\ lastRaised = FALSE
    /\ tools = EmptyDict
    /\ config = None
    /\ agents = <<>>
    /\ nProcessed = 0
    /\ opTrace = <<>>
    /\ opResult = NoResult

NextSafety == CheckCode \/ CheckResources \/ CheckContent \/ CheckAll

SpecSafety == InitSafety /\ [][NextSafety]_vars

(***************************************************************************)
(*                     Properties: WorkingMemory                           *)
(***************************************************************************)
Retained == {wmMemory[i] : i \in 1 .. Len(wmMemory)}
SeenEntries == {wmSeen[i] : i \in 1 .. Len(wmSeen)}

\* a ranks above b: higher importance, or equal importance and added later
Outranks(a, b) ==
    \/ a.importance > b.importance
    \/ a.importance = b.importance /\ a.id > b.id

\* C2: for every capacity N >= 0, WorkingMemory holds at most N entries after
\* each add, and exactly N once at least N entries have been added.
C2_SizeWithinCapacity ==
    /\ Len(wmMemory) <= wmCapacity
    /\ Len(wmSeen) >= wmCapacity => Len(wmMemory) = wmCapacity

\* C3: the entries evicted by add are the lowest ranked of those seen: every
\* retained entry was added, is held once, and ranks above every evicted entry
\* (higher importance, or equal importance and added more recently).
C3_EvictsLowestOldestFirst ==
    /\ Retained \subseteq SeenEntries
    /\ Cardinality(Retained) = Len(wmMemory)
    /\ \A e \in SeenEntries \ Retained : \A r \in Retained : Outranks(r, e)

\* C3 witness: an eviction decided by recency alone (a tie in importance), and
\* one decided by importance, with a positive capacity.
C3_Witness ==
    /\ wmCapacity >= 1
    /\ \E e \in SeenEntries \ Retained : \E r \in Retained : e.importance = r.importance
    /\ \E e \in SeenEntries \ Retained : \E r \in Retained : e.importance < r.importance

(***************************************************************************)
(*                Properties: EventBus and MessageRouter                   *)
(***************************************************************************)
\* One call per subscription of `ev`, in subscription order.
ExpectedEventCalls(ev, id) ==
    IF ev \in DOMAIN subscribers
    THEN [i \in 1 .. Len(subscribers[ev]) |->
            [kind |-> "event", key |-> ev, cb |-> subscribers[ev][i].name, msg |-> id]]
    ELSE <<>>

\* One call per registered route, in registration order.
ExpectedRouteCalls(id) ==
    [i \in 1 .. Len(routes) |->
        [kind |-> "route", key |-> routes[i].agent_id, cb |-> routes[i].cb.name, msg |-> id]]

IsRouted(type) == lastOp = "route_message" /\ lastMsg.type = type

\* C5: route_message on a DIRECT message whose recipient_id is unset or has no
\* route does not raise, invokes no route callback and no subscriber, and
\* appends exactly one entry (the message) to the history.
C5_UnroutableDirectIsDropped ==
    [][(/\ nRouted' = nRouted + 1
        /\ lastMsg'.type = "direct"
        /\ \/ ~Truthy(lastMsg'.recipient_id)
           \/ lastMsg'.recipient_id \notin RouteKeys(routes))
       => (/\ ~lastRaised'
           /\ lastCalls' = <<>>
           /\ Len(history) < HistoryLimit => history' = Append(history, lastMsg'.id))]_vars

C5_Witness ==
    /\ IsRouted("direct")
    /\ lastMsg.recipient_id = "zz"
    /\ Len(routes) = 2
    /\ TotalSubscriptions(subscribers) > 0
    /\ lastCalls = <<>>
    /\ history # <<>> /\ history[Len(history)] = lastMsg.id

\* C6: after any sequence of route_message calls, with messages of any type and
\* dropped ones included, the history holds the most recent min(n, 1000) routed
\* messages in routing order (message ids are ranks in routing order).
C6_HistoryIsLastRouted ==
    /\ Len(history) = Min(nRouted, HistoryLimit)
    /\ \A i \in 1 .. Len(history) : history[i] = nRouted - Len(history) + i

C6_Witness ==
    /\ nRouted > HistoryLimit + 1
    /\ IsRouted("tool_request")
    /\ history[1] = nRouted - HistoryLimit + 1

\* C7: publish invokes every subscription of the event once, in subscription
\* order, whether or not a callback raises, and does not raise to the publisher.
C7_PublishInvokesAllInOrder ==
    lastOp = "publish" =>
        /\ ~lastRaised
        /\ lastCalls = ExpectedEventCalls(lastMsg.event_type, lastMsg.id)

C7_Witness ==
    /\ lastOp = "publish"
    /\ lastMsg.event_type = "e1"
    /\ "e1" \in DOMAIN subscribers
    /\ subscribers["e1"] = <<CbSyncRaise, CbAsync>>
    /\ Len(lastCalls) = 2
    /\ lastCalls[2].cb = CbAsync.name

\* C8: a BROADCAST invokes the callback of every registered route once, a raising
\* callback does not stop delivery to the others, and nothing is raised to the caller.
C8_BroadcastReachesEveryRoute ==
    IsRouted("broadcast") =>
        /\ ~lastRaised
        /\ lastCalls = ExpectedRouteCalls(lastMsg.id)

C8_Witness ==
    /\ IsRouted("broadcast")
    /\ Len(routes) = 2
    /\ routes[1].cb = CbSyncRaise
    /\ Len(lastCalls) = 2
    /\ lastCalls[2].key = routes[2].agent_id

\* C9: a SYSTEM message goes to every route and is then published as event
\* "system", also when a route callback raises; an EVENT message is published
\* only under its metadata.event_type, and not at all when that is missing.
C9_SystemAndEventDelivery ==
    /\ IsRouted("system") =>
          /\ ~lastRaised
          /\ lastCalls = ExpectedRouteCalls(lastMsg.id)
                           \o ExpectedEventCalls("system", lastMsg.id)
    /\ IsRouted("event") =>
          /\ ~lastRaised
          /\ lastCalls = IF Truthy(lastMsg.event_type)
                         THEN ExpectedEventCalls(lastMsg.event_type, lastMsg.id)
                         ELSE <<>>

C9_Witness ==
    /\ IsRouted("system")
    /\ \E i \in 1 .. Len(routes) : routes[i].cb = CbSyncRaise
    /\ "system" \in DOMAIN subscribers /\ subscribers["system"] # <<>>
    /\ "e1" \in DOMAIN subscribers /\ subscribers["e1"] # <<>>
    /\ Len(lastCalls) = Len(routes) + Len(subscribers["system"])

(***************************************************************************)
(*              Properties: tools, agents and the orchestrator             *)
(***************************************************************************)
CapabilitiesOf(agts, id) == agts[AgentIndex(agts, id)].capabilities

\* C1: on every path that reaches a tool handler (Agent.use_tool and the
\* orchestrator's handle_tool_request / execute_tool_safely), a safety check of
\* that tool name and those arguments ran earlier in the same operation and
\* returned safe; no handler runs after a check that returned safe=false.
C1_HandlerOnlyAfterSafetyCheck ==
    \A i \in 1 .. Len(opTrace) :
        opTrace[i].ev = "handler" =>
            \E j \in 1 .. i - 1 :
                /\ opTrace[j].ev = "tool_safety"
                /\ opTrace[j].tool = opTrace[i].tool
                /\ opTrace[j].args = opTrace[i].args
                /\ opTrace[j].ok

\* C4: when process_user_message returns success for a safe text, the selected
\* agent has processed the routed message: the body of its process_message ran
\* on that text (safety check made), the received and sent entries are the
\* newest of its memory, and its status was updated.
C4_SelectedAgentProcessed ==
    (opResult.op = "process_user_message" /\ opResult.success) =>
        LET a == agents[AgentIndex(agents, opResult.who)]
        IN  /\ \E i \in 1 .. Len(opTrace) :
                  /\ opTrace[i].ev = "process_message"
                  /\ opTrace[i].who = opResult.who
                  /\ opTrace[i].args = opResult.args
            /\ \E i \in 1 .. Len(opTrace) :
                  /\ opTrace[i].ev = "content_safety"
                  /\ opTrace[i].who = opResult.who
            /\ Len(a.memory) >= 2
            /\ a.memory[Len(a.memory) - 1] = [type |-> "received", content |-> opResult.args]
            /\ a.memory[Len(a.memory)].type = "sent"
            /\ a.status = "idle"

\* C10: use_tool with a tool name outside the agent's capabilities returns a
\* failure, runs neither the safety check nor a handler, and leaves the tool
\* registry and the agents as they were.
C10_NoCapabilityNoToolUse ==
    [][(/\ opResult'.op = "use_tool"
        /\ opResult'.tool \notin CapabilitiesOf(agents, opResult'.who))
       => (/\ ~opResult'.success
           /\ opResult'.error = "capability"
           /\ \A i \in 1 .. Len(opTrace') : opTrace'[i].ev \notin {"tool_safety", "handler"}
           /\ tools' = tools
           /\ agents' = agents)]_vars

C10_Witness ==
    /\ opResult.op = "use_tool"
    /\ opResult.who = "coder"
    /\ opResult.tool = "search"
    /\ "search" \in DOMAIN tools
    /\ "query" \in DOMAIN opResult.args
    /\ opResult.tool \notin CapabilitiesOf(agents, opResult.who)
    /\ opTrace = <<>>
    /\ ~opResult.success

\* C11: Agent.use_tool with a string argument value that contains a denylisted
\* path prefix (/etc/, /usr/, /var/, ~/) is rejected by the tool-argument
\* safety check, and the tool handler is not called.
C11_DangerousPathValueRejected ==
    (/\ opResult.op = "use_tool"
     /\ opResult.tool \in CapabilitiesOf(agents, opResult.who)
     /\ \E k \in DOMAIN opResult.args : HasDangerousPath(opResult.args[k]))
    => (/\ ~opResult.success
        /\ opResult.error = "safety"
        /\ \A i \in 1 .. Len(opTrace) : opTrace[i].ev # "handler")

(***************************************************************************)
(*                    Properties: an agent on its own                      *)
(***************************************************************************)
AgentStatuses == {"initialized", "idle", "processing", "error", "stopped"}

\* the edges of the status state machine:
\*   initialized -> idle <-> processing -> idle | error,  any -> stopped
AllowedStatusEdges ==
    {<<"initialized", "idle">>, <<"idle", "processing">>,
     <<"processing", "idle">>, <<"processing", "error">>}
    \cup {<<st, "stopped">> : st \in AgentStatuses}

\* the values assigned to the status of agent id during an operation, in order
StatusesSet(trace, id) ==
    LET IsStatusOf(e) == e.ev = "status" /\ e.who = id
        sets == SelectSeq(trace, IsStatusOf)
    IN  [k \in 1 .. Len(sets) |-> sets[k].args]

\* C12: under any sequence of start, stop and process_message calls, the
\* status of an agent changes only along the edges initialized->idle,
\* idle->processing, processing->idle, processing->error and any->stopped; in
\* particular a stopped agent stays stopped.
C12_StatusFollowsStateMachine ==
    [][\A i \in 1 .. Len(agents) :
          LET path == <<agents[i].status>> \o StatusesSet(opTrace', agents[i].id)
          IN  \A k \in 1 .. Len(path) - 1 :
                 path[k] # path[k + 1] => <<path[k], path[k + 1]>> \in AllowedStatusEdges]_vars

\* C13: process_message on content that fails the content safety check returns
\* {success: false, error: "Safety check failed"}; the status of the agent does
\* not become error, nothing is appended to its memory and response generation
\* is not invoked.
C13_RejectionIsNotAFault ==
    [][(/\ opResult'.op = "process_message"
        /\ nProcessed' = nProcessed + 1
        /\ ~CheckContentSafety(opResult'.args))
       => LET i == AgentIndex(agents, opResult'.who)
          IN  /\ ~opResult'.success
              /\ opResult'.error = "Safety check failed"
              /\ agents'[i].status # "error"
              /\ "error" \notin {StatusesSet(opTrace', agents[i].id)[k] :
                                   k \in 1 .. Len(StatusesSet(opTrace', agents[i].id))}
              /\ agents'[i].memory = agents[i].memory
              /\ \A k \in 1 .. Len(opTrace') :
                    opTrace'[k].ev \notin {"generate_response", "tool_safety", "handler"}]_vars

C13_Witness ==
    /\ opResult.op = "process_message"
    /\ opResult.args = "ssn"
    /\ opResult.error = "Safety check failed"
    /\ nProcessed = 2
    /\ Len(agents[1].memory) = 2
    /\ agents[1].status = "processing"

\* C14: for every agent type (base, code, research, task), an exception raised
\* during response generation, one raised by a tool call inside generation
\* included, leaves the agent in status error and makes process_message return
\* {success: false, error: <message>}.
C14_GenerationFaultMeansError ==
    (/\ opResult.op = "process_message"
     /\ \E k \in 1 .. Len(opTrace) :
           /\ opTrace[k].ev = "generate_response"
           /\ opTrace[k].who = opResult.who
           /\ ~opTrace[k].ok)
    => (/\ agents[AgentIndex(agents, opResult.who)].status = "error"
        /\ ~opResult.success
        /\ opResult.error = "exception")

\* C15: the lists returned by get_memory, with or without a limit, are
\* read-only views: changing a returned list never changes the memory of the
\* agent, which changes only through process_message.
C15_MemoryChangesOnlyByProcessMessage ==
    [][\A i \in 1 .. Len(agents) :
          agents'[i].memory # agents[i].memory
              => opResult'.op \in {"process_message", "process_user_message"}]_vars

(***************************************************************************)
(*                   Properties: the tool registry                         *)
(***************************************************************************)
\* the request passes execute's own validation
ExecuteRequestValid(tls, name, kwargs) ==
    /\ name \in DOMAIN tls
    /\ tls[name].func.required \subseteq DOMAIN kwargs

EventsOf(trace, evs) == {k \in 1 .. Len(trace) : trace[k].ev \in evs}

\* C16: register with a name that is already registered fails with an error
\* and leaves the entry of that name (handler, schema, timeout) unchanged; a
\* name stays bound to the entry of its first registration.
C16_DuplicateRegistrationRejected ==
    [][/\ (opResult'.op = "register" /\ opResult'.tool \in DOMAIN tools)
            => (/\ ~opResult'.success
                /\ opResult'.error = "duplicate"
                /\ tools' = tools)
       /\ \A n \in DOMAIN tools : n \in DOMAIN tools' /\ tools'[n] = tools[n]]_vars

C16_Witness ==
    /\ opResult.op = "register"
    /\ opResult.error = "duplicate"
    /\ opResult.tool \in DOMAIN tools
    /\ tools[opResult.tool].func # opResult.args.func
    /\ tools[opResult.tool].timeout # opResult.args.timeout

\* C17: execute with an unregistered tool name, or with a required parameter
\* missing, never invokes any handler.
C17_InvalidRequestRunsNoHandler ==
    (opResult.op = "execute" /\ ~ExecuteRequestValid(tools, opResult.tool, opResult.args))
    => EventsOf(opTrace, {"handler", "task_created"}) = {}

C17_Witness ==
    /\ opResult.op = "execute"
    /\ opResult.tool \in DOMAIN tools
    /\ tools[opResult.tool].func.required # {}
    /\ ~(tools[opResult.tool].func.required \subseteq DOMAIN opResult.args)
    /\ opResult.args # <<>>
    /\ opTrace = <<>>

\* C18: execute never raises to its caller: for an unknown tool name or a
\* missing required parameter it returns the failure result
\* {success: false, error: "validation", detail} instead.
C18_ExecuteNeverRaises ==
    opResult.op = "execute"
    => /\ opResult.error # "raised"
       /\ ~ExecuteRequestValid(tools, opResult.tool, opResult.args)
             => (~opResult.success /\ opResult.error = "validation")

\* C19: for every registered handler, synchronous or asynchronous, that has
\* not finished when the timeout of its tool elapses, execute returns
\* {success: false, error: "timeout"} at that deadline and does not wait for
\* the handler to finish.
C19_TimeoutEnforcedForEveryHandler ==
    (/\ opResult.op = "execute"
     /\ ExecuteRequestValid(tools, opResult.tool, opResult.args)
     /\ tools[opResult.tool].func.duration > tools[opResult.tool].timeout)
    => (/\ ~opResult.success
        /\ opResult.error = "timeout"
        /\ \A k \in EventsOf(opTrace, {"execute_returned"}) :
              opTrace[k].args = tools[opResult.tool].timeout)

\* C20: when execute returns a timeout result, the handler invocation in
\* flight has been cancelled: every task created for it was cancelled before
\* execute returned, none is left pending, and the handler produced no value.
C20_TimedOutHandlerIsCancelled ==
    (opResult.op = "execute" /\ opResult.error = "timeout")
    => (/\ \A k \in EventsOf(opTrace, {"task_created"}) :
              \E c \in EventsOf(opTrace, {"task_cancelled"}) :
                 /\ k < c
                 /\ opTrace[c].tool = opTrace[k].tool
                 /\ \E r \in EventsOf(opTrace, {"execute_returned"}) : c < r
        /\ \A k \in EventsOf(opTrace, {"handler"}) : ~opTrace[k].ok)

C20_Witness ==
    /\ opResult.op = "execute"
    /\ opResult.error = "timeout"
    /\ tools[opResult.tool].timeout = DefaultTimeout
    /\ EventsOf(opTrace, {"task_created"}) # {}
    /\ EventsOf(opTrace, {"task_cancelled"}) # {}

(***************************************************************************)
(*               Properties: concurrent ToolRegistry.execute               *)
(***************************************************************************)
\* what a call returns when nothing else is in flight: execute applied to the
\* entry the call read, for its own caller, name and arguments
OwnOutcome(c) == RegistryExecute(c.seen, c.who, c.name, c.kwargs)

Changed(i) == i > Len(inFlight) \/ inFlight'[i] # inFlight[i]

\* C21: concurrent execute calls are independent: whatever the order in which
\* they complete, every call that has returned reports the outcome of its own
\* function on its own arguments, and one step of the event loop, be it a
\* return, an exception or a timeout, changes the one call it resumes and
\* neither cancels nor alters any other call in flight.
C21_ConcurrentCallsIndependent ==
    [][ /\ \A i \in 1 .. Len(inFlight') :
             inFlight'[i].state = "returned" => inFlight'[i].outcome = OwnOutcome(inFlight'[i])
        /\ \A i \in 1 .. Len(inFlight), j \in 1 .. Len(inFlight) :
             Changed(i) /\ Changed(j) => i = j
        /\ \A i \in 1 .. Len(inFlight) :
             inFlight[i].state = "returned" => ~Changed(i) ]_vars

\* two calls have returned in the reverse of the order they began in; the one
\* begun later timed out, the one begun first was in flight then and succeeded
C21_Witness ==
    \E i \in 1 .. Len(inFlight), j \in 1 .. Len(inFlight) :
        /\ i < j
        /\ inFlight[i].state = "returned" /\ inFlight[j].state = "returned"
        /\ inFlight[j].order < inFlight[i].order
        /\ inFlight[j].outcome.error = "timeout"
        /\ inFlight[i].outcome.success
        /\ inFlight[i].kwargs # inFlight[j].kwargs

(***************************************************************************)
(*            Properties: LongTermMemory and MemoryManager                 *)
(***************************************************************************)
NextStoreState == Store(ltmIndex', ltmFiles')

\* get(id) returns the record written for entry e
Holds(st, e) ==
    LET g == LongTermGet(st, e.id)
    IN  /\ g.found
        /\ "timestamp" \in DOMAIN g.record
        /\ g.record.id = e.id
        /\ g.record.timestamp = IsoFormat(e.timestamp)
        /\ g.record.importance = e.importance

InWorking(memory, e) == \E i \in 1 .. Len(memory) : memory[i] = e

C23_CycleKeepsAndPromotes ==
    [][ mmLast'.op = "consolidate" =>
          LET th == mmConfig.threshold
              promoted == {i \in 1 .. Len(wmMemory) : AtLeast(wmMemory[i].importance, th)}
          IN  /\ wmMemory' = <<>>
              /\ \A i \in promoted : Holds(NextStoreState, wmMemory[i])
              /\ \A id \in DOMAIN ltmIndex :
                    /\ id \in DOMAIN ltmIndex' /\ ltmIndex'[id] = ltmIndex[id]
                    /\ LongTermGet(NextStoreState, id) = LongTermGet(CurrentStore, id)
              /\ \A id \in DOMAIN ltmIndex' \ DOMAIN ltmIndex :
                    \E i \in promoted : wmMemory[i].id = id ]_vars

\* C24: once stop_consolidation has returned, no task created by
\* start_consolidation is still pending, waiting to run another cycle.
C24_StopLeavesNoTask ==
    mmLast.op = "stop_consolidation" =>
        \A k \in 1 .. Len(consolTasks) : consolTasks[k] # "sleeping"

\* C25: after add(entry), get(entry.id) returns a record whose content equals
\* entry.content, and the index record of entry.id carries the importance and
\* the timestamp of the entry.
C25_RoundTrip ==
    mmLast.op = "add" =>
        LET e == mmLast.entry
            g == LongTermGet(CurrentStore, e.id)
        IN  /\ g.found
            /\ "content" \in DOMAIN g.record
            /\ g.record.content = e.content
            /\ ltmIndex[e.id].importance = e.importance
            /\ ltmIndex[e.id].timestamp = IsoFormat(e.timestamp)

\* C26: for an id persisted in LongTermMemory, every step other than
\* delete(id) leaves the index record of the id and what get(id) returns as
\* they were.
C26_PersistedRecordImmutable ==
    [][ \A id \in DOMAIN ltmIndex :
          ~(mmLast'.op = "delete" /\ mmLast'.entry.id = id) =>
              /\ id \in DOMAIN ltmIndex'
              /\ ltmIndex'[id] = ltmIndex[id]
              /\ LongTermGet(NextStoreState, id) = LongTermGet(CurrentStore, id) ]_vars

(***************************************************************************)
(*            Properties: process_user_message and routing                 *)
(***************************************************************************)
EventKinds(trace) == {trace[i].ev : i \in 1 .. Len(trace)}

\* the routing decision process_user_message obtained, if it obtained one
Decided(trace) ==
    {i \in 1 .. Len(trace) : trace[i].ev = "routing" /\ trace[i].ok}

TypeOfAgent(agts, id) == agts[AgentIndex(agts, id)].type

TopTypes(t) ==
    LET types == {RoutingTypes[i] : i \in 1 .. Len(RoutingTypes)}
    IN  {a \in types : \A b \in types :
            ScoreNum(b, t) * ScoreDen(a) <= ScoreNum(a, t) * ScoreDen(b)}

\* C28: with an agent of every role configured, the routing decision selects
\* the agent of the role with the strictly highest score, and the task agent
\* whenever two or more roles tie for the best score.
C28_TieSelectsTaskAgent ==
    (/\ opResult.op = "process_user_message"
     /\ Decided(opTrace) # {}
     /\ \A i \in 1 .. Len(RoutingTypes) : AgentsOfType(agents, RoutingTypes[i]) # {}) =>
        \A i \in Decided(opTrace) :
            LET top == TopTypes(opTrace[i].args.text)
                chosen == TypeOfAgent(agents, opTrace[i].who)
            IN  IF Cardinality(top) = 1 THEN chosen \in top ELSE chosen = "task"

\* C29: process_user_message("Write a function to calculate fibonacci"), with
\* a code agent configured, yields a routing decision whose agent is the code
\* agent and whose confidence is at least 0.4.
C29_FibonacciRoutedToCodeAgent ==
    (/\ opResult.op = "process_user_message"
     /\ opResult.args = "fib"
     /\ AgentsOfType(agents, "code") # {}) =>
        /\ Decided(opTrace) # {}
        /\ \A i \in Decided(opTrace) :
              /\ TypeOfAgent(agents, opTrace[i].who) = "code"
              /\ 10 * opTrace[i].args.num >= 4 * opTrace[i].args.den

\* C30: in process_user_message the intervention hook is invoked exactly when
\* a routing decision was made with confidence below 0.7 (and once); it is
\* invoked before the message is routed and before any agent runs; when the
\* hook does not approve, a failure is returned, no message is routed and
\* neither the router nor an agent changes.
C30_InterventionBeforeRouting ==
    [][ opResult'.op = "process_user_message" =>
          LET trace == opTrace'
              hooks == {i \in 1 .. Len(trace) : trace[i].ev = "intervention"}
              low == \E i \in Decided(trace) : 10 * trace[i].args.num < 7 * trace[i].args.den
          IN  /\ hooks # {} <=> low
              /\ Cardinality(hooks) <= 1
              /\ \A i \in hooks, j \in 1 .. Len(trace) :
                    trace[j].ev \in {"route_message", "process_message", "handler"} => i < j
              /\ \A i \in hooks :
                    ~trace[i].ok =>
                        /\ ~opResult'.success
                        /\ EventKinds(trace) \cap {"route_message", "process_message"} = {}
                        /\ history' = history /\ nRouted' = nRouted
                        /\ lastCalls' = lastCalls /\ agents' = agents ]_vars

\* a message of confidence below 0.7 was handed to the router after the hook
\* had approved
C30_Witness ==
    /\ opResult.op = "process_user_message"
    /\ opResult.success
    /\ history # <<>>
    /\ \E i \in 1 .. Len(opTrace), j \in 1 .. Len(opTrace) :
          /\ opTrace[i].ev = "intervention" /\ opTrace[i].ok
          /\ opTrace[j].ev = "route_message"
          /\ i < j

(***************************************************************************)
(*       Properties: resource limits, handoff and tool requests            *)
(***************************************************************************)
\* the sampled usage exceeds one of the configured limits
UsageExceedsALimit ==
    \E r \in DOMAIN config.resource_limits : ResourceUsage[r] > config.resource_limits[r]

\* C31: when the sampled resource usage exceeds a configured limit, a message
\* that passed the safety check, got a routing decision and was not refused by
\* the intervention hook is rejected with "Resource limits exceeded": no
\* message is handed to the router, the router history, its count and its call
\* log are unchanged, and no agent is invoked or changed.
C31_OverLimitRoutesNothing ==
    [][ (/\ opResult'.op = "process_user_message"
         /\ UsageExceedsALimit
         /\ Decided(opTrace') # {}
         /\ \A i \in 1 .. Len(opTrace') : opTrace'[i].ev = "intervention" => opTrace'[i].ok) =>
          /\ opResult'.error = "Resource limits exceeded"
          /\ EventKinds(opTrace') \cap {"route_message", "process_message", "handler"} = {}
          /\ history' = history
          /\ nRouted' = nRouted
          /\ lastCalls' = lastCalls
          /\ agents' = agents ]_vars

\* a safe text was given a routing decision and then rejected for the limits
C31_Witness ==
    /\ opResult.op = "process_user_message"
    /\ UsageExceedsALimit
    /\ Decided(opTrace) # {}
    /\ opResult.error = "Resource limits exceeded"
    /\ Len(agents) > 1

\* C32: handle_agent_handoff with an id that is no known agent returns a
\* failure and routes nothing (router history, count and last message
\* unchanged); with two known ids exactly one message is routed, a DIRECT
\* message with sender from_id, recipient to_id and metadata.handoff true, and
\* the handoff_id returned is the id of that message.
C32_HandoffRoutesOneTaggedMessage ==
    [][ opResult'.op = "handle_agent_handoff" =>
          LET a == opResult'.args
              known == {agents[i].id : i \in 1 .. Len(agents)}
          IN  IF a.from \notin known \/ a.to \notin known
              THEN /\ ~opResult'.success
                   /\ history' = history /\ nRouted' = nRouted
                   /\ lastCalls' = lastCalls /\ lastMsg' = lastMsg
              ELSE /\ opResult'.success
                   /\ nRouted' = nRouted + 1
                   /\ history' = Append(history, lastMsg'.id)
                   /\ lastMsg'.type = "direct"
                   /\ lastMsg'.sender_id = a.from
                   /\ lastMsg'.recipient_id = a.to
                   /\ lastMsg'.handoff
                   /\ a.handoff_id = lastMsg'.id ]_vars

\* a handoff between two different known agents has been routed, and the
\* router called the recipient's route
C32_Witness ==
    /\ opResult.op = "handle_agent_handoff"
    /\ opResult.success
    /\ opResult.args.from # opResult.args.to
    /\ opResult.args.handoff_id = lastMsg.id
    /\ \E i \in 1 .. Len(lastCalls) : lastCalls[i].key = opResult.args.to

\* the positions of the events of the given kinds in a trace
Positions(trace, kinds) == {i \in 1 .. Len(trace) : trace[i].ev \in kinds}

\* C33: handle_tool_request validates first, then asks the intervention hook
\* (for a high-risk tool, and for no other), then executes: a request that
\* fails validation reaches neither the hook nor the handler, the handler of a
\* high-risk tool runs only after the hook was asked and approved, and never
\* after it rejected.
C33_ValidateThenHookThenExecute ==
    (opResult.op = "handle_tool_request") =>
        LET hooks == Positions(opTrace, {"intervention"})
            runs == Positions(opTrace, {"handler", "task_created"})
            highRisk == opResult.tool \in config.high_risk_tools
        IN  /\ opTrace[1].ev = "validate"
            /\ Positions(opTrace, {"validate"}) = {1}
            /\ ~opTrace[1].ok => hooks = {} /\ runs = {}
            /\ hooks # {} => highRisk
            /\ (highRisk /\ opTrace[1].ok) => Cardinality(hooks) = 1
            /\ \A i \in hooks, j \in runs : i < j /\ opTrace[i].ok
            /\ (highRisk /\ runs # {}) => hooks # {}
            /\ \A i \in hooks : ~opTrace[i].ok => runs = {} /\ ~opResult.success

\* the handler of a high-risk tool has run after the hook approved
C33_Witness ==
    /\ opResult.op = "handle_tool_request"
    /\ opResult.tool \in config.high_risk_tools
    /\ \E i \in 1 .. Len(opTrace), j \in 1 .. Len(opTrace) :
          /\ opTrace[i].ev = "intervention" /\ opTrace[i].ok
          /\ opTrace[j].ev = "handler"
          /\ i < j

\* C39: handle_tool_request returns success only if the handler ran to
\* completion and produced a result; when execute reports a handler exception
\* or a timeout the result is a failure.
C39_SuccessMeansHandlerCompleted ==
    (opResult.op = "handle_tool_request" /\ opResult.success) =>
        \E i \in 1 .. Len(opTrace) : opTrace[i].ev = "handler" /\ opTrace[i].ok

(***************************************************************************)
(*                  Properties: SafetyGuardrails checks                    *)
(***************************************************************************)
TextChecks == {"check_code_safety", "check_resource_limits", "check_content_safety",
               "check_all_safety"}

\* C34: no safety check raises; for an input that is no string each of the
\* four checks returns a result with safe = false and an issue describing the
\* malformed input.
C34_ChecksNeverRaise ==
    (opResult.op \in TextChecks) =>
        /\ opResult.error # "raised"
        /\ opResult.args.kind # "str" => ~opResult.success /\ opTrace # <<>>

\* the issue types of a list, with their multiplicities
IssueCount(issues, type) == Cardinality({i \in 1 .. Len(issues) : issues[i] = type})
IssueTypes == {"dangerous_command", "resource", "harmful_content", "pii_detected"}

\* C35: whenever a check returns a result, safe is true iff the issues list is
\* empty; the issues of check_all_safety are those of the code, resource and
\* content checks on the same input taken together, so check_all_safety is
\* safe iff the three checks are.
C35_SafeIffNoIssues ==
    (opResult.op \in TextChecks /\ opResult.error # "raised") =>
        /\ opResult.success <=> opTrace = <<>>
        /\ opResult.op = "check_all_safety" =>
              LET x == opResult.args
                  code == CheckCodeSafety(x)
                  res == GuardrailsCheckResourceLimits(x)
                  content == CheckContentSafetyResult(x)
              IN  /\ \A t \in IssueTypes :
                        IssueCount(opTrace, t) = IssueCount(code.issues, t)
                            + IssueCount(res.issues, t) + IssueCount(content.issues, t)
                  /\ Len(opTrace) = Len(code.issues) + Len(res.issues) + Len(content.issues)
                  /\ opResult.success <=> (code.safe /\ res.safe /\ content.safe)

\* check_all_safety has returned for a text whose only issues are those of
\* the resource check, of which there are two
C35_Witness ==
    /\ opResult.op = "check_all_safety"
    /\ opResult.error # "raised"
    /\ ~opResult.success
    /\ IssueCount(opTrace, "resource") = 2
    /\ Len(opTrace) = 2

(***************************************************************************)
(* C37: whenever no process_message call is in flight on an agent its      *)
(* status is not "processing": every return path of process_message, the   *)
(* safety-rejection path included, leaves "idle" or "error".  In SpecAgent *)
(* each call runs to its return within one step, so no call is in flight   *)
(* in any state.                                                           *)
(***************************************************************************)
C37_NotProcessingWhenNoCallInFlight ==
    \A i \in 1 .. Len(agents) : agents[i].status # "processing"

\* What holds instead: after a call returned, the status is "processing"
\* exactly when the call was rejected by the content check.
C37_ProcessingOnlyAfterRejection ==
    opResult.op = "process_message" =>
        \A i \in 1 .. Len(agents) :
            agents[i].id = opResult.who =>
                (agents[i].status = "processing"
                    <=> opResult.error = "Safety check failed")

(***************************************************************************)
(* C38: when two process_message calls on one agent overlap, the status    *)
(* stays "processing" until both have returned: the completion of one call *)
(* never sets "idle" while the other is still in flight.                   *)
(***************************************************************************)
CallsInFlight(id) == {k \in 1 .. Len(inFlight) : inFlight[k].who = id}

C38_ProcessingUntilAllReturned ==
    \A i \in 1 .. Len(agents) :
        CallsInFlight(agents[i].id) # {} => agents[i].status = "processing"

\* Two calls do overlap, and the status is "processing" while both are
\* suspended.
C38_BothInFlightProcessing ==
    \A i \in 1 .. Len(agents) :
        Cardinality(CallsInFlight(agents[i].id)) >= 2
            => agents[i].status = "processing"

C38_Overlap ==
    \E i \in 1 .. Len(agents) : Cardinality(CallsInFlight(agents[i].id)) >= 2

(***************************************************************************)
(* C40: a BROADCAST reaches every route that was registered when           *)
(* route_message was called, even if register_route or unregister_route is *)
(* called for a different agent while an async recipient is suspended;     *)
(* such a change never aborts the delivery to the remaining recipients.    *)
(* Stated for the recipients whose own route was not touched meanwhile.    *)
(***************************************************************************)
Reached == {lastCalls[k].key : k \in 1 .. Len(lastCalls)}

BroadcastReturned == lastOp = "route_message" /\ opResult.op = "route_message"

C40_BroadcastReachesRegisteredRoutes ==
    BroadcastReturned =>
        (opResult.args.atCall \ opResult.args.touched) \subseteq Reached

\* With no change of the table during the broadcast every route is reached.
C40_UndisturbedBroadcastReachesAll ==
    (BroadcastReturned /\ opResult.args.changes = 0) =>
        /\ opResult.success
        /\ opResult.args.atCall \subseteq Reached

C40_UndisturbedSuspendedBroadcast ==
    /\ BroadcastReturned
    /\ opResult.args.changes = 0
    /\ \E k \in 1 .. Len(lastCalls) : lastCalls[k].cb = CbAsync.name
    /\ Len(lastCalls) = 2

(***************************************************************************)
(* C36: the consolidation step (promote, then clear) is atomic with        *)
(* respect to add_memory on the same event loop: an entry added to         *)
(* WorkingMemory is never cleared by a cycle whose promotion scan did not  *)
(* see it.  Whatever WorkingMemory holds in the state a clearing step      *)
(* starts from, the newest entry included, went through the scan of that   *)
(* very step: the step is a consolidation cycle, and every entry at or     *)
(* above the threshold has its id in LongTermMemory's index afterwards.    *)
(***************************************************************************)
C36_ClearedEntriesWereScanned ==
    [][ (wmMemory # <<>> /\ wmMemory' = <<>>) =>
          /\ mmLast'.op = "consolidate"
          /\ \A i \in 1 .. Len(wmMemory) :
                wmMemory[i].importance * mmConfig.threshold.den
                        >= mmConfig.threshold.num * MaxImportance
                    => wmMemory[i].id \in DOMAIN ltmIndex' ]_vars

\* A cycle of a running task has just cleared WorkingMemory, after every
\* entry of the exploration was added, and LongTermMemory holds both ids.
C36_Witness ==
    /\ mmLast.op = "consolidate"
    /\ wmMemory = <<>>
    /\ mmLast.tick = MaxEntries
    /\ \E k \in 1 .. Len(consolTasks) : consolTasks[k] = "sleeping"
    /\ ManagerIds \subseteq DOMAIN ltmIndex

====
